---- MODULE Spec2Model ----
(***************************************************************************)
(* Model of the hybrid recognition orchestrator (HybridOcrService), the    *)
(* cloud backend adapter (GoogleVisionService) and the cloud backend's     *)
(* field extraction, as implemented in src/src/services.                   *)
(*                                                                         *)
(* JavaScript runs one task at a time: every action below is the code that *)
(* runs between two await points of one call (or one whole synchronous     *)
(* method).  Several processImage calls may be in progress at once, one    *)
(* per slot of Slots; their steps interleave at the await points.          *)
(*                                                                         *)
(* Spec      one processImage call at a time, interleaved with every other *)
(*           method of the orchestrator and with environment changes       *)
(* SpecCalls concurrent processImage calls                                 *)
(* SpecLog   concurrent processImage calls, enough of them to fill the logs*)
(* SpecCloud the field extraction of the cloud backend on a detected text  *)
(***************************************************************************)
EXTENDS Integers, Sequences, FiniteSets, TLC

\* ------------------------------------------------------------------ bounds
NSlots == 2          \* processImage calls that may be in progress at once
MaxCalls == 2        \* processImage calls started in one behaviour of Spec
MaxOps == 1          \* other operations and environment changes in Spec
MaxRequests == 1     \* the configured cloud quota (maxGoogleVisionRequests)
LogCalls == 102      \* processImage calls started in one behaviour of SpecLog
MaxCardLines == 2    \* lines of a text handed to the cloud field extraction
MaxSelections == 2   \* calls of determineStrategy in one behaviour
MaxY == 3            \* the lowest pixel row of a token of SpecLayout
MaxWords == 2        \* tokens of a recognition result of SpecLayout
MaxLocalLines == 2   \* lines of a text handed to the local field extraction
MaxRuns == 2         \* extractions run one after another by SpecRepeat
MaxCaptures == 2     \* handleImageCapture calls that may be in progress at once
NTessSlots == 2      \* OCRService calls that may be in progress at once
MaxTessCalls == 3    \* OCRService calls started in one behaviour of SpecWorker

\* ------------------------------------------------------- program constants
MaxErrors == 50      \* cap of analytics.errors
MaxTimes == 100      \* cap of analytics.processingTimes
GvConfidence == 95   \* overall confidence of a cloud result
LayoutConfidence == 75  \* overall confidence of a local layout-path result
DefaultMaxRequests == 1000  \* maxGoogleVisionRequests when not configured
MinConfidence == 60          \* the confidence handleImageCapture asks for

Slots == 1..NSlots

GV == "google-vision"
TESS == "tesseract"
NONE == "none"

\* Error messages (the .message of the Error objects the code throws)
ErrBlob == "Failed to convert canvas to blob"
ErrAuth ==
  "Google Vision API authentication not configured (need API key or service account)"
ErrLimit == "Monthly Google Vision API limit reached"
ErrHttp == "Google Vision API error"
ErrResponse == "Vision API error"
ErrOcr == "OCR processing failed"
NoError == "no error"

VARIABLES
  config,      \* HybridOcrService.config
  gvs,         \* every GoogleVisionService instance created; the last is current
  analytics,   \* HybridOcrService.analytics
  env,         \* what the outside world answers: probes, backends, image kind
  calls,       \* per slot: position and locals of a processImage call
  health,      \* position, locals and last result of healthCheck
  started,     \* processImage calls started so far
  callLimit,   \* processImage calls this behaviour may start
  ops,         \* other operations and environment changes so far
  hist,        \* history: every appended log entry, completed invocations
  doc,         \* position and locals of GoogleVisionService.parseVisionResponse
  store,       \* the state of the scan workflow store (useScanWorkflowStore)
  probe,       \* position, request and timer of a connectivity probe
  ocr,         \* position and locals of OCRService.parseContactDataWithLayout
  lastIndex,   \* lastIndex of the parsers' shared global regular expressions
  scan,        \* per slot: position and locals of a handleImageCapture call
  tess         \* OCRService: worker, isInitialized and the calls in progress

orchVars == <<config, gvs, analytics, env, calls, health, started, callLimit,
              ops, hist>>

\* the variables of the local pipeline, of the probes and of the workflow store
localVars == <<store, probe, ocr, lastIndex, scan, tess>>

vars == <<config, gvs, analytics, env, calls, health, started, callLimit,
          ops, hist, doc, store, probe, ocr, lastIndex, scan, tess>>

\* ------------------------------------------------------------------ helpers
Min(a, b) == IF a < b THEN a ELSE b

\* keeps the oldest n entries instead of the newest
SliceFirst(s, n) == IF Len(s) <= n THEN s ELSE SubSeq(s, 1, n)

\* Array.prototype.slice(-n)
SliceLast(s, n) == IF Len(s) <= n THEN s ELSE SubSeq(s, Len(s) - n + 1, Len(s))

Cur == Len(gvs)      \* index of this.googleVisionService in gvs

NewGvs(apiKey, maxRequests) ==
  [apiKey |-> apiKey, maxRequests |-> maxRequests, requestCount |-> 0,
   serviceAccountCredentials |-> FALSE]

\* GoogleVisionService.getUsageStats().remainingRequests
RemainingRequests(g) == g.maxRequests - g.requestCount

\* the quota test with < in place of <=
QuotaExhaustedStrict(remaining) == remaining < 0

\* the quota test of determineStrategy and healthCheck
QuotaExhausted(remaining) == remaining <= 0

\* the quota test of GoogleVisionService.processImage
LimitReached(g) == g.requestCount >= g.maxRequests

Strategy(primary, fallback, reason) ==
  [primary |-> primary, fallback |-> fallback, reason |-> reason]

OfflineStrategy == Strategy(TESS, NONE, "Force offline mode enabled")
NoCredsStrategy ==
  Strategy(TESS, NONE,
           "Google Vision API not configured (no API key or service account)")
NoNetStrategy == Strategy(TESS, NONE, "Network connectivity unavailable")
QuotaStrategy == Strategy(TESS, NONE, "Google Vision API monthly limit reached")
DefaultStrategy == Strategy(GV, TESS, "Optimal accuracy and speed")
NoStrategy == Strategy(NONE, NONE, "undetermined")

\* what a probe of determineStrategy / healthCheck saw; "unprobed" when the
\* function returned before issuing it
NoObs == [offline |-> "unprobed", creds |-> "unprobed", net |-> "unprobed",
          quota |-> "unprobed", remaining |-> 0]
YesNo(b) == IF b THEN "yes" ELSE "no"

\* the remaining quota as recorded among the observations: every positive
\* count is recorded as 1, zero and negative counts as they are
Observed(remaining) == IF remaining > 0 THEN 1 ELSE remaining

NoResult == [kind |-> "none", processor |-> NONE, fallbackUsed |-> "absent",
             error |-> NoError, confidence |-> 0, fields |-> "none"]

IdleCall == [pc |-> "idle", image |-> "blob", strategy |-> NoStrategy,
             obs |-> NoObs, gen |-> 0, primaryError |-> NoError,
             inflight |-> {}, invoked |-> <<>>, primaryOutcome |-> "none",
             fallbackOutcome |-> "none", result |-> NoResult]

IdleHealth == [pc |-> "idle", network |-> FALSE, available |-> FALSE,
               reason |-> "", obs |-> NoObs]

\* ------------------------------------------------------------ the two logs
\* An entry's timestamp is modelled by a logical clock per log: the number of
\* appends made to that log since it was last emptied (hist.errors and
\* hist.times count them).  The elapsed time of a timing sample is left out.

\* HybridOcrService.logError
LogError(a, enabled, t, processor, message) ==
  IF ~enabled THEN a
  ELSE [a EXCEPT !.errors =
          SliceLast(Append(a.errors, [timestamp |-> t, processor |-> processor,
                                      error |-> message]), MaxErrors)]

\* HybridOcrService.logProcessingTime
LogProcessingTime(a, enabled, t, processor) ==
  IF ~enabled THEN a
  ELSE [a EXCEPT !.processingTimes =
          SliceLast(Append(a.processingTimes,
                           [timestamp |-> t, processor |-> processor]), MaxTimes)]

Ticks(enabled) == IF enabled THEN 1 ELSE 0

\* history: appends per log and results returned since the last reset,
\* whether two calls ever overlapped, the last operation other than
\* processImage
EmptyHist == [errors |-> 0, times |-> 0, okReturns |-> 0, overlap |-> FALSE,
              lastOp |-> "none"]


\* ---------------------------------------------------------------- strings
\* A string is a sequence of one-character strings.
LowerCaseLetters ==
  <<"a", "b", "c", "d", "e", "f", "g", "h", "i", "j", "k", "l", "m", "n",
    "o", "p", "q", "r", "s", "t", "u", "v", "w", "x", "y", "z">>

UpperCaseLetters ==
  <<"A", "B", "C", "D", "E", "F", "G", "H", "I", "J", "K", "L", "M", "N",
    "O", "P", "Q", "R", "S", "T", "U", "V", "W", "X", "Y", "Z">>

Digits == {"0", "1", "2", "3", "4", "5", "6", "7", "8", "9"}

Letters == 1..Len(LowerCaseLetters)

IsUpper(ch) == \E i \in Letters : UpperCaseLetters[i] = ch
IsLower(ch) == \E i \in Letters : LowerCaseLetters[i] = ch
IsLetter(ch) == IsUpper(ch) \/ IsLower(ch)

\* \s of the regular expressions
WhiteSpace == {" ", "\n"}

\* String.prototype.toLowerCase / toUpperCase
ToLowerCase(s) ==
  [i \in 1..Len(s) |->
     IF IsUpper(s[i])
     THEN LowerCaseLetters[CHOOSE k \in Letters : UpperCaseLetters[k] = s[i]]
     ELSE s[i]]

ToUpperCase(s) ==
  [i \in 1..Len(s) |->
     IF IsLower(s[i])
     THEN UpperCaseLetters[CHOOSE k \in Letters : LowerCaseLetters[k] = s[i]]
     ELSE s[i]]

\* String.prototype.trim
Trim(s) ==
  LET kept == {i \in 1..Len(s) : s[i] \notin WhiteSpace}
  IN IF kept = {} THEN <<>>
     ELSE SubSeq(s, CHOOSE a \in kept : \A i \in kept : a <= i,
                    CHOOSE b \in kept : \A i \in kept : b >= i)

\* String.prototype.split(sep) for a one-character separator
RECURSIVE Split(_, _)
Split(s, sep) ==
  LET at == {i \in 1..Len(s) : s[i] = sep}
  IN IF at = {} THEN <<s>>
     ELSE LET k == CHOOSE i \in at : \A j \in at : i <= j
          IN <<SubSeq(s, 1, k - 1)>> \o Split(SubSeq(s, k + 1, Len(s)), sep)

\* Array.prototype.join(sep)
RECURSIVE Join(_, _)
Join(ls, sep) ==
  IF Len(ls) = 0 THEN <<>>
  ELSE IF Len(ls) = 1 THEN ls[1]
  ELSE ls[1] \o <<sep>> \o Join(Tail(ls), sep)

\* String.prototype.includes
Includes(s, sub) ==
  \E i \in 1..(Len(s) - Len(sub) + 1) : SubSeq(s, i, i + Len(sub) - 1) = sub

\* keywords.some(keyword => s.includes(keyword))
IncludesSome(s, keywords) == \E k \in keywords : Includes(s, k)

\* line.match(/[0-9]{3}/)
HasThreeDigits(s) ==
  \E i \in 1..(Len(s) - 2) : \A j \in i..(i + 2) : s[j] \in Digits

\* text.split('\n').map(line => line.trim()).filter(line => line.length > 0)
NonEmpty(l) == Len(l) > 0
LinesOf(text) ==
  LET raw == Split(text, "\n")
  IN SelectSeq([i \in 1..Len(raw) |-> Trim(raw[i])], NonEmpty)

\* the whole of s matches /[a-zA-Z0-9._%+-]+@[a-zA-Z0-9.-]+\.[a-zA-Z]{2,}/
IsLocalChar(ch) ==
  IsLetter(ch) \/ ch \in Digits \/ ch \in {".", "_", "%", "+", "-"}
IsDomainChar(ch) == IsLetter(ch) \/ ch \in Digits \/ ch \in {".", "-"}
IsEmail(s) ==
  \E p \in 2..Len(s) :
    /\ s[p] = "@"
    /\ \A i \in 1..(p - 1) : IsLocalChar(s[i])
    /\ \E k \in (p + 2)..(Len(s) - 2) :
         /\ s[k] = "."
         /\ \A i \in (p + 1)..(k - 1) : IsDomainChar(s[i])
         /\ \A i \in (k + 1)..Len(s) : IsLetter(s[i])

\* a field that has not been assigned; assigned fields are never empty
Unset == <<>>

\* text.match(emailRegex)[0]: the leftmost match, extended greedily
EmailMatch(text) ==
  LET ats == {p \in 1..Len(text) : text[p] = "@"}
      M == {m \in (1..Len(text)) \X (1..Len(text)) :
              /\ m[1] < m[2]
              /\ \E p \in ats : m[1] < p /\ p < m[2]
              /\ IsEmail(SubSeq(text, m[1], m[2]))}
  IN IF M = {} THEN Unset
     ELSE LET i == CHOOSE a \in {m[1] : m \in M} :
                     \A m \in M : a <= m[1]
              j == CHOOSE b \in {m[2] : m \in {n \in M : n[1] = i}} :
                     \A m \in {n \in M : n[1] = i} : b >= m[2]
          IN SubSeq(text, i, j)

\* /^[a-zA-Z]{2,15}$/.test(part)
IsNamePart(part) ==
  /\ Len(part) >= 2 /\ Len(part) <= 15
  /\ \A i \in 1..Len(part) : IsLetter(part[i])

\* part.charAt(0).toUpperCase() + part.slice(1).toLowerCase()
Capitalize(part) ==
  IF Len(part) = 0 THEN part
  ELSE ToUpperCase(<<part[1]>>) \o ToLowerCase(Tail(part))

\* /^[A-Za-z\s\-\.]+$/.test(line)
IsNameText(line) ==
  /\ Len(line) > 0
  /\ \A i \in 1..Len(line) :
       IsLetter(line[i]) \/ line[i] \in WhiteSpace \/ line[i] \in {"-", "."}

\* /^[A-Z][a-z]+ [A-Z][a-z]+/.test(line)
StartsWithProperName(line) ==
  \E a \in 2..Len(line) :
    /\ IsUpper(line[1])
    /\ \A i \in 2..a : IsLower(line[i])
    /\ a + 3 <= Len(line)
    /\ line[a + 1] = " "
    /\ IsUpper(line[a + 2])
    /\ IsLower(line[a + 3])

\* the line at which a for-of loop over lines stops, if any;
\* accepted is the set of indices of the lines the loop's test accepts
FirstLine(lines, accepted) ==
  IF accepted = {} THEN Unset
  ELSE lines[CHOOSE i \in accepted : \A j \in accepted : i <= j]

\* ------------------------------------- GoogleVisionService field extraction
BusinessKeywords ==
  {<<"l", "l", "c">>,
   <<"i", "n", "c">>,
   <<"c", "o", "r", "p">>,
   <<"c", "o", "m", "p", "a", "n", "y">>,
   <<"s", "o", "l", "u", "t", "i", "o", "n", "s">>,
   <<"g", "r", "o", "u", "p">>,
   <<"e", "n", "t", "e", "r", "p", "r", "i", "s", "e", "s">>,
   <<"l", "t", "d">>,
   <<"l", "i", "m", "i", "t", "e", "d">>}

\* titleKeywords of detectNameFromStructuredText
NameTitleKeywords ==
  {<<"c", "e", "o">>,
   <<"c", "t", "o">>,
   <<"c", "f", "o">>,
   <<"p", "r", "e", "s", "i", "d", "e", "n", "t">>,
   <<"v", "p">>,
   <<"d", "i", "r", "e", "c", "t", "o", "r">>,
   <<"m", "a", "n", "a", "g", "e", "r">>,
   <<"s", "e", "n", "i", "o", "r">>,
   <<"l", "e", "a", "d">>}

\* titleKeywords of detectCompanyFromStructuredText
CompanyTitleKeywords ==
  {<<"c", "e", "o">>,
   <<"c", "t", "o">>,
   <<"c", "f", "o">>,
   <<"p", "r", "e", "s", "i", "d", "e", "n", "t">>,
   <<"v", "p">>,
   <<"d", "i", "r", "e", "c", "t", "o", "r">>,
   <<"m", "a", "n", "a", "g", "e", "r">>}

\* titleKeywords of detectTitleFromStructuredText
TitleKeywords ==
  {<<"c", "e", "o">>,
   <<"c", "t", "o">>,
   <<"c", "f", "o">>,
   <<"p", "r", "e", "s", "i", "d", "e", "n", "t">>,
   <<"v", "i", "c", "e", " ", "p", "r", "e", "s", "i", "d", "e", "n", "t">>,
   <<"v", "p">>,
   <<"d", "i", "r", "e", "c", "t", "o", "r">>,
   <<"m", "a", "n", "a", "g", "e", "r">>,
   <<"s", "e", "n", "i", "o", "r">>,
   <<"l", "e", "a", "d">>,
   <<"h", "e", "a", "d">>,
   <<"c", "h", "i", "e", "f">>,
   <<"p", "r", "i", "n", "c", "i", "p", "a", "l">>,
   <<"a", "s", "s", "o", "c", "i", "a", "t", "e">>,
   <<"c", "o", "o", "r", "d", "i", "n", "a", "t", "o", "r">>,
   <<"s", "p", "e", "c", "i", "a", "l", "i", "s", "t">>,
   <<"a", "n", "a", "l", "y", "s", "t">>,
   <<"c", "o", "n", "s", "u", "l", "t", "a", "n", "t">>,
   <<"e", "n", "g", "i", "n", "e", "e", "r">>,
   <<"d", "e", "v", "e", "l", "o", "p", "e", "r">>,
   <<"d", "e", "s", "i", "g", "n", "e", "r">>,
   <<"a", "r", "c", "h", "i", "t", "e", "c", "t">>,
   <<"s", "u", "p", "e", "r", "v", "i", "s", "o", "r">>,
   <<"e", "x", "e", "c", "u", "t", "i", "v", "e">>}

EmptyContact ==
  [name |-> Unset, company |-> Unset, title |-> Unset, email |-> Unset,
   website |-> Unset,
   fieldConfidences |-> [name |-> 0, company |-> 0, title |-> 0,
                         email |-> 0, website |-> 0]]

\* extractFieldsFromText, lines 295-307: the email and the website
WithEmail(contact, text) ==
  LET emailMatch == EmailMatch(text)
  IN IF emailMatch = Unset THEN contact
     ELSE [contact EXCEPT
             !.email = emailMatch,
             !.website = <<"w", "w", "w", ".">> \o Split(emailMatch, "@")[2],
             !.fieldConfidences.email = 98,
             !.fieldConfidences.website = 95]

\* lines 349-365: the name derived from an email address first.last@...
NameFromEmail(email) ==
  LET emailPrefix == Split(email, "@")[1]
      parts == Split(emailPrefix, ".")
  IN IF /\ email # Unset
        /\ Includes(emailPrefix, <<".">>)
        /\ Len(parts) = 2
        /\ IsNamePart(parts[1]) /\ IsNamePart(parts[2])
     THEN Capitalize(parts[1]) \o <<" ">> \o Capitalize(parts[2])
     ELSE Unset

\* lines 369-383: the test of the name loop
LooksLikeName(line) ==
  /\ ~Includes(line, <<"@">>)
  /\ ~HasThreeDigits(line)
  /\ ~IncludesSome(ToLowerCase(line), NameTitleKeywords)
  /\ ~IncludesSome(ToLowerCase(line), BusinessKeywords)
  /\ Len(line) > 2
  /\ Len(line) < 50
  /\ IsNameText(line)
  /\ \/ StartsWithProperName(line)
     \/ Len(Split(line, " ")) >= 2 /\ Len(Split(line, " ")) <= 4

\* detectNameFromStructuredText
DetectName(contact, lines) ==
  LET nameLike == {i \in 1..Len(lines) : LooksLikeName(lines[i])}
  IN IF NameFromEmail(contact.email) # Unset
     THEN [contact EXCEPT !.name = NameFromEmail(contact.email),
                          !.fieldConfidences.name = 85]
     ELSE IF nameLike # {}
     THEN [contact EXCEPT !.name = FirstLine(lines, nameLike),
                          !.fieldConfidences.name = 90]
     ELSE contact

\* line !== contactData.name: strict comparison of the two strings
Differs(line, field) == line # field

\* detectCompanyFromStructuredText
DetectCompany(contact, lines) ==
  LET Usable(line) ==
        /\ Differs(line, contact.name)
        /\ ~Includes(line, <<"@">>)
        /\ ~HasThreeDigits(line)
        /\ ~IncludesSome(ToLowerCase(line), CompanyTitleKeywords)
      HasKeyword(line) ==
        /\ IncludesSome(ToLowerCase(line), BusinessKeywords)
        /\ Usable(line)
      BusinessLike(line) ==
        /\ Usable(line)
        /\ Len(line) > 5
        /\ Len(line) < 60
      withKeyword == {i \in 1..Len(lines) : HasKeyword(lines[i])}
      businessLike == {i \in 1..Len(lines) : BusinessLike(lines[i])}
  IN IF withKeyword # {}
     THEN [contact EXCEPT !.company = FirstLine(lines, withKeyword),
                          !.fieldConfidences.company = 95]
     ELSE IF businessLike # {}
     THEN [contact EXCEPT !.company = FirstLine(lines, businessLike),
                          !.fieldConfidences.company = 75]
     ELSE contact

\* detectTitleFromStructuredText
DetectTitle(contact, lines) ==
  LET IsTitle(line) ==
        /\ IncludesSome(ToLowerCase(line), TitleKeywords)
        /\ Differs(line, contact.name)
        /\ Differs(line, contact.company)
        /\ ~Includes(line, <<"@">>)
        /\ ~HasThreeDigits(line)
        /\ Len(line) > 2
        /\ Len(line) < 40
      titles == {i \in 1..Len(lines) : IsTitle(lines[i])}
  IN IF titles # {}
     THEN [contact EXCEPT !.title = FirstLine(lines, titles),
                          !.fieldConfidences.title = 90]
     ELSE contact

\* the texts the cloud backend may detect: no text at all, or up to
\* MaxCardLines lines of a business card
PersonLine == <<"j", "o", "h", "n", " ", "s", "m", "i", "t", "h">>
ProperLine == <<"J", "o", "h", "n", " ", "S", "m", "i", "t", "h">>
EmailLine ==
  <<"j", "o", "h", "n", ".", "s", "m", "i", "t", "h", "@", "a", "c", "m", "e", ".", "c", "o", "m">>
InfoEmailLine ==
  <<"i", "n", "f", "o", "@", "a", "c", "m", "e", ".", "c", "o", "m">>
CorpLine == <<"A", "c", "m", "e", " ", "C", "o", "r", "p">>
WidgetsLine ==
  <<"A", "c", "m", "e", " ", "W", "i", "d", "g", "e", "t", "s">>
TitleLine ==
  <<"S", "a", "l", "e", "s", " ", "D", "i", "r", "e", "c", "t", "o", "r">>
PhoneLine == <<" ", "5", "5", "5", " ", "0", "1", "0", "0">>

CardLines ==
  {ToUpperCase(PersonLine), ProperLine, EmailLine, InfoEmailLine,
   CorpLine, WidgetsLine, TitleLine, PhoneLine}

RECURSIVE CardsOf(_)
CardsOf(n) ==
  IF n = 0 THEN {<<>>}
  ELSE CardsOf(n - 1) \cup
       {<<l>> \o t : l \in CardLines,
                     t \in {u \in CardsOf(n - 1) : Len(u) = n - 1}}

Texts == {Join(card, "\n") : card \in CardsOf(MaxCardLines)}

\* no text has been handed to parseVisionResponse
NoDoc ==
  [pc |-> "none", text |-> <<>>, lines |-> <<>>, contact |-> EmptyContact]

\* parseVisionResponse is entered with the detected text
Received(text) ==
  [pc |-> "received", text |-> text, lines |-> <<>>, contact |-> EmptyContact]

\* ------------------------------------------------- the scan workflow store
\* null, as the value of capturedImage, extractedData and error
Null == "null"

ScanWorkflowSteps == {"idle", "capturing", "processing", "results", "error"}

stepOrder == <<"idle", "capturing", "processing", "results">>

\* Array.prototype.indexOf, zero-based, -1 when x is not an element
IndexOf(arr, x) ==
  IF \E i \in 1..Len(arr) : arr[i] = x
  THEN (CHOOSE i \in 1..Len(arr) :
          arr[i] = x /\ \A j \in 1..(i - 1) : arr[j] # x) - 1
  ELSE -1

\* arr[i] of a zero-based index
At(arr, i) == arr[i + 1]

initialState ==
  [currentStep |-> "idle", capturedImage |-> Null, extractedData |-> Null,
   error |-> Null, isProcessing |-> FALSE]

\* the arguments the components pass to the store
Images == {"front.jpg", "back.jpg"}
Extractions == {"contact A", "contact B"}
ErrorArgs == {Null, "", "Camera access denied"}

\* JavaScript truthiness of an error argument: null and '' are falsy
Truthy(error) == error # Null /\ error # ""

\* the store after an action; last is history: the action applied last, the
\* state it was applied to and, for setError, its argument
Applied(action, before, after) ==
  [state |-> after,
   last |-> [action |-> action, before |-> before, arg |-> Null]]

Created == Applied("create", initialState, initialState)

\* nextStep, missing the upper bound on the index
NextStepStateUnbounded(s) ==
  LET currentIndex == IndexOf(stepOrder, s.currentStep)
  IN  IF currentIndex >= 0 /\ currentIndex < Len(stepOrder)
      THEN [s EXCEPT !.currentStep =
                       IF currentIndex + 1 < Len(stepOrder)
                       THEN At(stepOrder, currentIndex + 1) ELSE "idle",
                     !.error = Null]
      ELSE s

\* the state nextStep sets
NextStepState(s) ==
  LET currentIndex == IndexOf(stepOrder, s.currentStep)
  IN  IF currentIndex >= 0 /\ currentIndex < Len(stepOrder) - 1
      THEN [s EXCEPT !.currentStep = At(stepOrder, currentIndex + 1),
                     !.error = Null]
      ELSE s

\* the state previousStep sets
PreviousStepState(s) ==
  LET currentIndex == IndexOf(stepOrder, s.currentStep)
  IN  IF currentIndex > 0
      THEN [s EXCEPT !.currentStep = At(stepOrder, currentIndex - 1),
                     !.error = Null]
      ELSE s

\* ------------------------------------- the requests of determineStrategy
\* no strategy selection in progress
FetchError == "TypeError: Failed to fetch"
AbortError == "AbortError: The user aborted a request."

\* selections counts the calls of determineStrategy so far, caught is the
\* error last caught by a probe
IdleProbe ==
  [pc |-> "idle", request |-> "none", timer |-> "none",
   hasServiceAccount |-> FALSE, isOnline |-> FALSE, strategy |-> NoStrategy,
   caught |-> NoError, selections |-> 0]

\* ------------------------------------------ OCRService.analyzeCardLayout
\* the pixel rows and the bounding boxes of the tokens
Rows == 0..MaxY

Boxes == {[x0 |-> 0, y0 |-> p[1], x1 |-> 10, y1 |-> p[2]] :
            p \in {q \in Rows \X Rows : q[1] <= q[2]}}

MinOf(S) == CHOOSE m \in S : \A n \in S : m <= n
MaxOf(S) == CHOOSE m \in S : \A n \in S : m >= n

\* lines 163-171
MinY(words) == MinOf({words[i].bbox.y0 : i \in 1..Len(words)})
MaxYOf(words) == MaxOf({words[i].bbox.y1 : i \in 1..Len(words)})
MinX(words) == MinOf({words[i].bbox.x0 : i \in 1..Len(words)})
MaxX(words) == MaxOf({words[i].bbox.x1 : i \in 1..Len(words)})
CardHeight(words) == MaxYOf(words) - MinY(words)
CardWidth(words) == MaxX(words) - MinX(words)

\* line 189: !word.text.trim()
Blank(word) == Trim(word.text) = <<>>

\* Lines 176-177 and 191-205 compare centerY = (y0 + y1) / 2 with
\* topThird = minY + cardHeight / 3 and bottomThird = minY + 2 * cardHeight / 3.
\* Both sides are multiplied by 6 here; for integer pixel coordinates the
\* floating-point comparison has the same outcome, since a third of the
\* height is a multiple of one half only when it is an integer.
CenterY6(word) == 3 * (word.bbox.y0 + word.bbox.y1)
TopThird6(words) == 6 * MinY(words) + 2 * CardHeight(words)
BottomThird6(words) == 6 * MinY(words) + 4 * CardHeight(words)

\* line 197: centerY <= topThird
IsTop(word, words) == CenterY6(word) <= TopThird6(words)

\* line 200: centerY >= bottomThird
IsBottom(word, words) == CenterY6(word) >= BottomThird6(words)

\* the elements of arr at the indices in S, in the order of arr
RECURSIVE Pick(_, _)
Pick(arr, S) ==
  IF arr = <<>> THEN <<>>
  ELSE Pick(SubSeq(arr, 1, Len(arr) - 1), S) \o
       (IF Len(arr) \in S THEN <<arr[Len(arr)]>> ELSE <<>>)

\* lines 199, 202, 204: the entry pushed for a word
Item(word) == [text |-> word.text, bbox |-> word.bbox, score |-> word.confidence]

Items(words, S) == Pick([i \in 1..Len(words) |-> Item(words[i])], S)

\* lines 188-199
TopLines(words) ==
  Items(words, {i \in 1..Len(words) :
                  ~Blank(words[i]) /\ IsTop(words[i], words)})

\* the bottom band filled by an if that is not the else of the top test
BottomLinesNoElse(words) ==
  Items(words, {i \in 1..Len(words) :
                  ~Blank(words[i]) /\ IsBottom(words[i], words)})

\* lines 200-202
BottomLines(words) ==
  Items(words, {i \in 1..Len(words) :
                  /\ ~Blank(words[i])
                  /\ ~IsTop(words[i], words)
                  /\ IsBottom(words[i], words)})

\* lines 203-205
MiddleLines(words) ==
  Items(words, {i \in 1..Len(words) :
                  /\ ~Blank(words[i])
                  /\ ~IsTop(words[i], words)
                  /\ ~IsBottom(words[i], words)})

\* lines 196-207
PositionOf(word, words) ==
  IF IsTop(word, words) THEN "top"
  ELSE IF IsBottom(word, words) THEN "bottom" ELSE "middle"

AllLines(words) ==
  Pick([i \in 1..Len(words) |->
          [text |-> words[i].text, bbox |-> words[i].bbox,
           position |-> PositionOf(words[i], words)]],
       {i \in 1..Len(words) : ~Blank(words[i])})

\* line 212: Array.prototype.sort is stable; largest size first
RECURSIVE SortBySize(_)
SortBySize(arr) ==
  IF arr = <<>> THEN <<>>
  ELSE LET rest == SortBySize(SubSeq(arr, 1, Len(arr) - 1))
           x == arr[Len(arr)]
           k == Cardinality({i \in 1..Len(rest) : rest[i].size >= x.size})
       IN  SubSeq(rest, 1, k) \o <<x>> \o SubSeq(rest, k + 1, Len(rest))

\* lines 192, 208, 212
LargestText(words) ==
  SortBySize(Pick([i \in 1..Len(words) |->
                     [text |-> words[i].text, bbox |-> words[i].bbox,
                      size |-> words[i].bbox.y1 - words[i].bbox.y0]],
                  {i \in 1..Len(words) : ~Blank(words[i])}))

NoLayout ==
  [topLines |-> <<>>, middleLines |-> <<>>, bottomLines |-> <<>>,
   largestText |-> <<>>, allLines |-> <<>>, cardHeight |-> 0, cardWidth |-> 0]

\* lines 216-224
LayoutAnalysis(words) ==
  [topLines |-> TopLines(words), middleLines |-> MiddleLines(words),
   bottomLines |-> BottomLines(words), largestText |-> LargestText(words),
   allLines |-> AllLines(words), cardHeight |-> CardHeight(words),
   cardWidth |-> CardWidth(words)]

\* the tokens of the layout specification: two words and a blank token, in
\* every box
TokenTexts == {<<"A", "l">>, <<"B", "o">>, <<" ">>}

Tokens == {[text |-> t, confidence |-> 90, bbox |-> b] :
             t \in TokenTexts, b \in Boxes}

\* the token lists of at most n tokens
RECURSIVE WordLists(_)
WordLists(n) ==
  IF n = 0 THEN {<<>>}
  ELSE WordLists(n - 1) \cup
       {<<w>> \o l : w \in Tokens,
                     l \in {u \in WordLists(n - 1) : Len(u) = n - 1}}

\* fieldConfidences: a confidence is present for the fields in the domain
NoConfidences == [f \in {} |-> 0]

Put(fc, field, value) ==
  [f \in DOMAIN fc \cup {field} |-> IF f = field THEN value ELSE fc[f]]

Has(fc, field) == field \in DOMAIN fc

\* ContactData['address'] with no component
NoAddress ==
  [street |-> Unset, city |-> Unset, state |-> Unset, zip |-> Unset,
   full |-> Unset]

\* the record of the local parser before any field is detected
NewContactData(rawText, confidence) ==
  [name |-> Unset, title |-> Unset, company |-> Unset, phone |-> Unset,
   email |-> Unset, website |-> Unset, address |-> NoAddress,
   raw_text |-> rawText, confidence |-> confidence,
   fieldConfidences |-> NoConfidences]

NoOcrResult == [text |-> <<>>, confidence |-> 0, words |-> <<>>]

\* the data of the engine; hasWords is false when data.words is undefined
NoData == [text |-> <<>>, confidence |-> 0, hasWords |-> FALSE, words |-> <<>>]

\* ---------------------------------------------------- regular expressions
\* A regular expression of the parsers is a tree of nodes; Ends(node, text, i)
\* is the list of positions at which a match of node that begins at
\* position i of text can end, in the order in which the backtracking
\* matcher of JavaScript tries them (greedy quantifiers first take as much
\* as they can).  Positions count from 1; a match from i that ends at e
\* covers text[i..e-1].
Node(t, s, xs, min, max) == [t |-> t, s |-> s, xs |-> xs, min |-> min, max |-> max]

Cls(chars) == Node("cls", chars, <<>>, 0, 0)          \* [...] and literals
Cat(xs) == Node("cat", {}, xs, 0, 0)                   \* concatenation
Alt(xs) == Node("alt", {}, xs, 0, 0)                   \* x|y
Rep(x, min, max) == Node("rep", {}, <<x>>, min, max)   \* x{min,max}
Opt(x) == Rep(x, 0, 1)                                 \* x?
Star(x) == Rep(x, 0, -1)                               \* x*
Plus(x) == Rep(x, 1, -1)                               \* x+
AtLeast(x, min) == Rep(x, min, -1)                     \* x{min,}
Times(x, n) == Rep(x, n, n)                            \* x{n}
WordBoundary == Node("wb", {}, <<>>, 0, 0)             \* \b
Bol == Node("bol", {}, <<>>, 0, 0)                     \* ^
Eol == Node("eol", {}, <<>>, 0, 0)                     \* $
Lit(str) == Cat([i \in 1..Len(str) |-> Cls({str[i]})])

\* \w, \d and their complements within the characters of the texts
WordChars ==
  {LowerCaseLetters[i] : i \in Letters} \cup
  {UpperCaseLetters[i] : i \in Letters} \cup Digits \cup {"_"}
LetterChars ==
  {LowerCaseLetters[i] : i \in Letters} \cup
  {UpperCaseLetters[i] : i \in Letters}
LowerChars == {LowerCaseLetters[i] : i \in Letters}
UpperChars == {UpperCaseLetters[i] : i \in Letters}
AlnumChars == LetterChars \cup Digits

IsWordAt(text, i) == i >= 1 /\ i <= Len(text) /\ text[i] \in WordChars

\* the number of characters of text from position i on that are in chars
Run(text, chars, i) ==
  LET stop == {j \in i..Len(text) : text[j] \notin chars}
  IN  IF stop = {} THEN Len(text) + 1 - i ELSE MinOf(stop) - i

\* a repeated character class: the longest run first, then one character
\* less at a time
EndsRepCls(chars, min, max, text, i) ==
  LET r == Run(text, chars, i)
      top == IF max >= 0 /\ max < r THEN max ELSE r
  IN  IF top < min THEN <<>>
      ELSE [k \in 1..(top - min + 1) |-> i + top - (k - 1)]

RECURSIVE Ends(_, _, _)
RECURSIVE EndsCat(_, _, _)
RECURSIVE EndsCatFrom(_, _, _)
RECURSIVE EndsAlt(_, _, _)
RECURSIVE EndsRep(_, _, _, _, _)
RECURSIVE EndsRepFrom(_, _, _, _, _)

Ends(node, text, i) ==
  CASE node.t = "cls" ->
         IF i <= Len(text) /\ text[i] \in node.s THEN <<i + 1>> ELSE <<>>
    [] node.t = "cat" -> EndsCat(node.xs, text, i)
    [] node.t = "alt" -> EndsAlt(node.xs, text, i)
    [] node.t = "rep" ->
         IF node.xs[1].t = "cls"
         THEN EndsRepCls(node.xs[1].s, node.min, node.max, text, i)
         ELSE EndsRep(node.xs[1], node.min, node.max, text, i)
    [] node.t = "wb" ->
         IF IsWordAt(text, i - 1) # IsWordAt(text, i) THEN <<i>> ELSE <<>>
    [] node.t = "bol" -> IF i = 1 THEN <<i>> ELSE <<>>
    [] node.t = "eol" -> IF i = Len(text) + 1 THEN <<i>> ELSE <<>>

EndsCat(xs, text, i) ==
  IF xs = <<>> THEN <<i>>
  ELSE EndsCatFrom(Tail(xs), text, Ends(Head(xs), text, i))

EndsCatFrom(xs, text, starts) ==
  IF starts = <<>> THEN <<>>
  ELSE EndsCat(xs, text, Head(starts)) \o EndsCatFrom(xs, text, Tail(starts))

EndsAlt(xs, text, i) ==
  IF xs = <<>> THEN <<>>
  ELSE Ends(Head(xs), text, i) \o EndsAlt(Tail(xs), text, i)

EndsRep(x, min, max, text, i) ==
  LET once == Ends(x, text, i)
      further == Pick(once, {k \in 1..Len(once) : once[k] > i})
  IN  (IF max = 0 THEN <<>>
       ELSE EndsRepFrom(x, IF min > 0 THEN min - 1 ELSE 0,
                        IF max > 0 THEN max - 1 ELSE max, text, further))
      \o (IF min <= 0 THEN <<i>> ELSE <<>>)

EndsRepFrom(x, min, max, text, starts) ==
  IF starts = <<>> THEN <<>>
  ELSE EndsRep(x, min, max, text, Head(starts)) \o
       EndsRepFrom(x, min, max, text, Tail(starts))

\* the starts, from position from on, at which regex matches
MatchStarts(regex, text, from) ==
  {s \in from..(Len(text) + 1) : Ends(regex, text, s) # <<>>}

\* RegExp.prototype.test of a regular expression without the g flag
Test(regex, text) == MatchStarts(regex, text, 1) # {}

NoMatch == [found |-> FALSE, index |-> 0, end |-> 0]

\* the leftmost match of regex in text at or after position from: index is
\* the position of its first character, end the position after its last
MatchFrom(regex, text, from) ==
  LET starts == MatchStarts(regex, text, from)
  IN  IF starts = {} THEN NoMatch
      ELSE LET s == MinOf(starts)
           IN  [found |-> TRUE, index |-> s, end |-> Head(Ends(regex, text, s))]

\* match[0]
Matched(text, m) == SubSeq(text, m.index, m.end - 1)

\* RegExp.prototype.exec of a regular expression with the g flag, whose
\* lastIndex (counted from 0) is li: the search starts at lastIndex
Exec(regex, text, li) ==
  IF li > Len(text) THEN NoMatch ELSE MatchFrom(regex, text, li + 1)

\* lastIndex after exec returned m: the index after the match, 0 after null
LastIndexAfter(m) == IF m.found THEN m.end - 1 ELSE 0

\* every match of a regular expression with the g flag in text, from the
\* left, each search starting after the previous match; as
\* String.prototype.replace finds them
RECURSIVE MatchesFrom(_, _, _)
MatchesFrom(regex, text, from) ==
  LET m == MatchFrom(regex, text, from)
  IN  IF ~m.found THEN <<>>
      ELSE <<m>> \o MatchesFrom(regex, text,
                                IF m.end > m.index THEN m.end ELSE m.end + 1)

\* -------------------------------------------------------------- EmailParser
\* every character a text of the model is made of: the character whitelist
\* of the recognition engine, the line break and the pipe
TextChars ==
  AlnumChars \cup
  {"@", ".", "-", "(", ")", "+", " ", "\n", "|", "_", ",", "#", ":"}

EmailUserChars == AlnumChars \cup {".", "_", "-"}
EmailDomainChars == AlnumChars \cup {".", "-"}

\* [a-zA-Z0-9](?:[a-zA-Z0-9._-]*[a-zA-Z0-9])?@[a-zA-Z0-9](?:[a-zA-Z0-9.-]*[a-zA-Z0-9])?
EmailStem ==
  <<Cls(AlnumChars),
    Opt(Cat(<<Star(Cls(EmailUserChars)), Cls(AlnumChars)>>)),
    Cls({"@"}),
    Cls(AlnumChars),
    Opt(Cat(<<Star(Cls(EmailDomainChars)), Cls(AlnumChars)>>))>>

\* EMAIL_PATTERNS[0]: ...\.[a-zA-Z]{2,}(?:\.[a-zA-Z]{2,3})?
StandardPattern ==
  Cat(EmailStem \o
      <<Cls({"."}), AtLeast(Cls(LetterChars), 2),
        Opt(Cat(<<Cls({"."}), Rep(Cls(LetterChars), 2, 3)>>))>>)

\* EMAIL_PATTERNS[1]: ...\.c[o0]m?\b
OcrCorrectedPattern ==
  Cat(EmailStem \o
      <<Cls({"."}), Cls({"c"}), Cls({"o", "0"}), Opt(Cls({"m"})),
        WordBoundary>>)

EMAIL_PATTERNS ==
  <<[pattern |-> StandardPattern, confidence |-> 95, name |-> "standard"],
    [pattern |-> OcrCorrectedPattern, confidence |-> 80,
     name |-> "ocr_corrected"]>>

VALID_DOMAINS ==
  {<<"c", "o", "m">>, <<"o", "r", "g">>, <<"n", "e", "t">>, <<"e", "d", "u">>,
   <<"g", "o", "v">>, <<"m", "i", "l">>, <<"i", "n", "t">>,
   <<"c", "o", ".", "u", "k">>, <<"c", "o", ".", "a", "u">>,
   <<"c", "o", ".", "n", "z">>, <<"c", "o", "m", ".", "a", "u">>,
   <<"c", "o", ".", "j", "p">>, <<"c", "o", ".", "k", "r">>, <<"c", "a">>,
   <<"d", "e">>, <<"f", "r">>, <<"i", "t">>, <<"e", "s">>, <<"n", "l">>,
   <<"b", "e">>, <<"c", "h">>, <<"a", "t">>, <<"s", "e">>, <<"n", "o">>,
   <<"d", "k">>, <<"f", "i">>, <<"p", "l">>, <<"c", "z">>, <<"h", "u">>,
   <<"r", "u">>, <<"i", "o">>, <<"a", "i">>, <<"t", "e", "c", "h">>,
   <<"d", "e", "v">>, <<"a", "p", "p">>, <<"c", "l", "o", "u", "d">>,
   <<"d", "i", "g", "i", "t", "a", "l">>, <<"o", "n", "l", "i", "n", "e">>,
   <<"s", "i", "t", "e">>, <<"w", "e", "b", "s", "i", "t", "e">>,
   <<"p", "r", "o">>, <<"b", "i", "z">>, <<"i", "n", "f", "o">>}

OCR_CORRECTIONS ==
  <<[from |-> <<"0">>, to |-> <<"o">>, context |-> "domain"],
    [from |-> <<"O">>, to |-> <<"0">>, context |-> "username"],
    [from |-> <<"l">>, to |-> <<"1">>, context |-> "username"],
    [from |-> <<"I">>, to |-> <<"1">>, context |-> "username"],
    [from |-> <<"S">>, to |-> <<"5">>, context |-> "username"],
    [from |-> <<"G">>, to |-> <<"6">>, context |-> "username"],
    [from |-> <<"c", "0", "m">>, to |-> <<"c", "o", "m">>, context |-> "domain"],
    [from |-> <<"|">>, to |-> <<"l">>, context |-> "both"],
    [from |-> <<"r", "n">>, to |-> <<"m">>, context |-> "both"]>>

BUSINESS_INDICATORS ==
  {<<"i", "n", "f", "o">>, <<"c", "o", "n", "t", "a", "c", "t">>,
   <<"s", "a", "l", "e", "s">>, <<"s", "u", "p", "p", "o", "r", "t">>,
   <<"a", "d", "m", "i", "n">>, <<"o", "f", "f", "i", "c", "e">>,
   <<"h", "e", "l", "l", "o">>, <<"t", "e", "a", "m">>,
   <<"m", "a", "i", "l">>, <<"i", "n", "q", "u", "i", "r", "i", "e", "s">>,
   <<"b", "u", "s", "i", "n", "e", "s", "s">>}

PERSONAL_INDICATORS ==
  {<<"g", "m", "a", "i", "l", ".", "c", "o", "m">>,
   <<"y", "a", "h", "o", "o", ".", "c", "o", "m">>,
   <<"h", "o", "t", "m", "a", "i", "l", ".", "c", "o", "m">>,
   <<"o", "u", "t", "l", "o", "o", "k", ".", "c", "o", "m">>,
   <<"i", "c", "l", "o", "u", "d", ".", "c", "o", "m">>,
   <<"m", "e", ".", "c", "o", "m">>, <<"a", "o", "l", ".", "c", "o", "m">>,
   <<"l", "i", "v", "e", ".", "c", "o", "m">>}

\* String.prototype.replace(/from/g, to) for a literal from
RECURSIVE ReplaceAll(_, _, _)
ReplaceAll(s, from, to) ==
  LET at == {i \in 1..(Len(s) - Len(from) + 1) :
               SubSeq(s, i, i + Len(from) - 1) = from}
  IN  IF at = {} THEN s
      ELSE SubSeq(s, 1, MinOf(at) - 1) \o to \o
           ReplaceAll(SubSeq(s, MinOf(at) + Len(from), Len(s)), from, to)

\* text with from replaced by to inside each of the matches, leaving out the
\* first lead and the last trail characters of a match; the text from
\* position pos on, the matches from the k-th on
RECURSIVE ReplaceWithin(_, _, _, _, _, _, _, _)
ReplaceWithin(text, matches, k, pos, lead, trail, from, to) ==
  IF k > Len(matches) THEN SubSeq(text, pos, Len(text))
  ELSE LET m == matches[k]
       IN  SubSeq(text, pos, m.index + lead - 1) \o
           ReplaceAll(SubSeq(text, m.index + lead, m.end - 1 - trail),
                      from, to) \o
           ReplaceWithin(text, matches, k + 1, m.end - trail, lead, trail,
                         from, to)

\* /@([^@\s]+)/g
DomainPart ==
  Cat(<<Cls({"@"}), Plus(Cls(TextChars \ ({"@"} \cup WhiteSpace)))>>)

\* /([a-zA-Z0-9._-]+)@/g
UsernamePart == Cat(<<Plus(Cls(EmailUserChars)), Cls({"@"})>>)

\* lines 116-125
CorrectDomains(text, c) ==
  IF c.context \in {"domain", "both"}
  THEN ReplaceWithin(text, MatchesFrom(DomainPart, text, 1), 1, 1, 1, 0,
                     c.from, c.to)
  ELSE text

\* lines 127-136
CorrectUsernames(text, c) ==
  IF c.context \in {"username", "both"}
  THEN ReplaceWithin(text, MatchesFrom(UsernamePart, text, 1), 1, 1, 0, 1,
                     c.from, c.to)
  ELSE text

\* lines 111-140: the corrections from the k-th on
RECURSIVE CorrectFrom(_, _)
CorrectFrom(text, k) ==
  IF k > Len(OCR_CORRECTIONS) \/ text = <<>> THEN text
  ELSE CorrectFrom(CorrectUsernames(CorrectDomains(text, OCR_CORRECTIONS[k]),
                                    OCR_CORRECTIONS[k]), k + 1)

EmailApplyOCRCorrections(text) == CorrectFrom(text, 1)

\* every character of s is in chars, and there is one: /^[...]+$/.test(s)
AllIn(s, chars) == Len(s) >= 1 /\ \A i \in 1..Len(s) : s[i] \in chars

\* domainParts.slice(-n).join('.')
LastParts(parts, n) ==
  Join(SubSeq(parts, IF Len(parts) > n THEN Len(parts) - n + 1 ELSE 1,
              Len(parts)), ".")

Clamp(lo, hi, x) == IF x < lo THEN lo ELSE IF x > hi THEN hi ELSE x

\* the score of validateAndScore without the final clamp
EmailScore(email, baseConfidence, hadOCRCorrections) ==
  LET parts == Split(email, "@")
      username == parts[1]
      domain == parts[2]
      isValidFormat == /\ Len(username) >= 1
                       /\ Len(domain) >= 3
                       /\ Includes(domain, <<".">>)
                       /\ AllIn(username, EmailUserChars)
                       /\ AllIn(domain, EmailDomainChars)
      c1 == IF isValidFormat THEN baseConfidence ELSE 0
      domainParts == Split(domain, ".")
      hasValidTLD == \/ LastParts(domainParts, 1) \in VALID_DOMAINS
                     \/ LastParts(domainParts, 2) \in VALID_DOMAINS
      c2 == IF ~hasValidTLD /\ c1 > 0 THEN c1 - 15 ELSE c1
      c3 == IF hadOCRCorrections THEN c2 - 10 ELSE c2
      isPersonalDomain == IncludesSome(ToLowerCase(email), PERSONAL_INDICATORS)
      hasBusinessUsername ==
        IncludesSome(ToLowerCase(username), BUSINESS_INDICATORS)
      isPrimary == ~isPersonalDomain \/ hasBusinessUsername
  IN  [isPrimary |-> isPrimary, domain |-> domain,
       confidence |-> IF isPrimary /\ ~isPersonalDomain THEN c3 + 10 ELSE c3]

\* the confidence as the arithmetic leaves it
Unclamped(x) == x

\* line 191: Math.max(0, Math.min(100, Math.round(confidence)))
ClampScore(x) == Clamp(0, 100, x)

\* lines 145-197
Scored(email, s) ==
  [email |-> email, confidence |-> ClampScore(s.confidence),
   isPrimary |-> s.isPrimary, domain |-> s.domain,
   isValid |-> s.confidence > 50]

ValidateAndScore(email, baseConfidence, hadOCRCorrections) ==
  Scored(email, EmailScore(email, baseConfidence, hadOCRCorrections))

\* lines 95-98: the comparator of the sort is negative
EmailBefore(a, b) ==
  IF a.isPrimary # b.isPrimary THEN a.isPrimary
  ELSE b.confidence - a.confidence < 0

\* Array.prototype.sort with that comparator; the sort is stable
RECURSIVE SortEmails(_)
SortEmails(arr) ==
  IF arr = <<>> THEN <<>>
  ELSE LET rest == SortEmails(SubSeq(arr, 1, Len(arr) - 1))
           x == arr[Len(arr)]
           k == Cardinality({i \in 1..Len(rest) : ~EmailBefore(x, rest[i])})
       IN  SubSeq(rest, 1, k) \o <<x>> \o SubSeq(rest, k + 1, Len(rest))

\* lines 81-91: the while loop over one pattern, begun with the lastIndex li
\* the pattern was left with by the call before; acc is what the loops have
\* gathered so far.  The loop ends when exec returns null, which resets
\* lastIndex to 0.
RECURSIVE EmailLoop(_, _, _, _, _)

\* lines 86-89: a valid result is pushed
EmailAdded(acc, email, result) ==
  [acc EXCEPT !.processedEmails = @ \cup {email},
              !.results = IF result.isValid THEN Append(@, result) ELSE @]

\* the loop with an if in place of the while: after one exec it ends, and the
\* match position stays in the shared regular expression
EmailOnce(p, text, correctedText, acc, match, email) ==
  IF ~match.found \/ email \in acc.processedEmails
  THEN [acc EXCEPT !.lastIndex = LastIndexAfter(match)]
  ELSE [EmailAdded(acc, email,
                   ValidateAndScore(email, p.confidence,
                                    text # correctedText))
          EXCEPT !.lastIndex = LastIndexAfter(match)]

\* lines 81-91: what the loop does with the outcome of one exec
EmailStep(p, text, correctedText, acc, match, email) ==
  IF ~match.found THEN [acc EXCEPT !.lastIndex = LastIndexAfter(match)]
  ELSE EmailLoop(p, text, correctedText, LastIndexAfter(match),
                 IF email \in acc.processedEmails THEN acc
                 ELSE EmailAdded(acc, email,
                                 ValidateAndScore(email, p.confidence,
                                                  text # correctedText)))

\* lines 82-83: match[0].toLowerCase().trim()
EmailMatched(p, text, correctedText, acc, match) ==
  EmailStep(p, text, correctedText, acc, match,
            Trim(ToLowerCase(Matched(correctedText, match))))

EmailLoop(p, text, correctedText, li, acc) ==
  EmailMatched(p, text, correctedText, acc,
               Exec(p.pattern, correctedText, li))

\* the regular expressions of both parsers, by name, and their lastIndex
\* before any use
RegexNames ==
  {"standard", "ocr_corrected", "international", "us_parentheses",
   "us_separated", "simple_10digit", "international_spaces"}

FreshRegexes == [r \in RegexNames |-> 0]

\* lines 77-92: the loops over the patterns from the k-th on; li holds the
\* lastIndex of every shared regular expression
RECURSIVE EmailPatternsFrom(_, _, _, _)
\* line 77: the next pattern starts from what the loop of this one left
EmailPatternDone(text, k, li, name, done) ==
  EmailPatternsFrom(text, k + 1, [li EXCEPT ![name] = done.lastIndex], done)

EmailPatternsFrom(text, k, li, acc) ==
  IF k > Len(EMAIL_PATTERNS) THEN [acc EXCEPT !.lastIndex = li]
  ELSE EmailPatternDone(text, k, li, EMAIL_PATTERNS[k].name,
                        EmailLoop(EMAIL_PATTERNS[k], text,
                                  EmailApplyOCRCorrections(text),
                                  li[EMAIL_PATTERNS[k].name], acc))

\* lines 72-99: the sorted results and the lastIndex values left behind
EmailsOf(done) ==
  [results |-> SortEmails(done.results), lastIndex |-> done.lastIndex]

ExtractEmails(text, li) ==
  EmailsOf(EmailPatternsFrom(text, 1, li,
                             [processedEmails |-> {}, results |-> <<>>,
                              lastIndex |-> 0]))

\* lines 104-106: results.find(r => r.isPrimary) || results[0] || null
GetPrimaryEmail(results) ==
  LET primary == {i \in 1..Len(results) : results[i].isPrimary}
  IN  IF primary # {} THEN <<results[MinOf(primary)]>>
      ELSE IF results # <<>> THEN <<results[1]>> ELSE <<>>

\* the website made of the part before the at sign
DeriveWebsiteOfUser(email) == <<"w", "w", "w", ".">> \o Split(email, "@")[1]

\* lines 219-222
DeriveWebsite(email) == <<"w", "w", "w", ".">> \o Split(email, "@")[2]

\* ------------------------------------------------------------ PhoneParser
\* [-.\s]?
Sep == Opt(Cls({"-", ".", " ", "\n"}))

Digit == Cls(Digits)

\* (?:[-.\s]?(?:ext|x|#)[-.\s]?\d{1,4})?
ShortExtension ==
  Opt(Cat(<<Sep, Alt(<<Lit(<<"e", "x", "t">>), Lit(<<"x">>), Lit(<<"#">>)>>), Sep,
            Rep(Digit, 1, 4)>>))

\* (?:ext|extension|x|#)[-.\s]?(\d{1,4})
ExtensionPart ==
  Cat(<<Alt(<<Lit(<<"e", "x", "t">>), Lit(<<"e", "x", "t", "e", "n", "s", "i", "o", "n">>), Lit(<<"x">>), Lit(<<"#">>)>>), Sep,
        Rep(Digit, 1, 4)>>)

\* (?:[-.\s]?(?:ext|extension|x|#)[-.\s]?(\d{1,4}))?
Extension == Opt(Cat(<<Sep, ExtensionPart>>))

\* lines 19-50
PHONE_PATTERNS ==
  <<[pattern |-> Cat(<<Cls({"+"}), Rep(Digit, 1, 3), Sep, Opt(Cls({"("})),
                       Times(Digit, 3), Opt(Cls({")"})), Sep,
                       Times(Digit, 3), Sep, Times(Digit, 4),
                       ShortExtension>>),
     confidence |-> 95, name |-> "international"],
    [pattern |-> Cat(<<Opt(Cls({"("})), Times(Digit, 3), Opt(Cls({")"})),
                       Sep, Times(Digit, 3), Sep, Times(Digit, 4),
                       Extension>>),
     confidence |-> 90, name |-> "us_parentheses"],
    [pattern |-> Cat(<<Times(Digit, 3), Cls({"-", "."}), Times(Digit, 3),
                       Cls({"-", "."}), Times(Digit, 4), Extension>>),
     confidence |-> 85, name |-> "us_separated"],
    [pattern |-> Cat(<<WordBoundary, Times(Digit, 10), WordBoundary,
                       Extension>>),
     confidence |-> 75, name |-> "simple_10digit"],
    [pattern |-> Cat(<<Cls({"+"}), Rep(Digit, 1, 3), Cls(WhiteSpace),
                       Times(Digit, 2), Cls(WhiteSpace), Times(Digit, 4),
                       Cls(WhiteSpace), Times(Digit, 4)>>),
     confidence |-> 90, name |-> "international_spaces"]>>

\* lines 53-63
OCR_DIGIT_CORRECTIONS ==
  <<[from |-> <<"O">>, to |-> <<"0">>], [from |-> <<"o">>, to |-> <<"0">>],
    [from |-> <<"I">>, to |-> <<"1">>], [from |-> <<"l">>, to |-> <<"1">>],
    [from |-> <<"S">>, to |-> <<"5">>], [from |-> <<"s">>, to |-> <<"5">>],
    [from |-> <<"G">>, to |-> <<"6">>], [from |-> <<"B">>, to |-> <<"8">>],
    [from |-> <<"|">>, to |-> <<"1">>]>>

\* lines 89-91
MOBILE_INDICATORS == {<<"m", "o", "b", "i", "l", "e">>, <<"c", "e", "l", "l">>,
   <<"c", "e", "l", "l", "u", "l", "a", "r">>, <<"m", ":">>,
   <<"m", "o", "b", ":">>}

\* /[+\-.\s()0-9A-Za-z|]{7,20}/g
PhoneChunk ==
  Rep(Cls(AlnumChars \cup WhiteSpace \cup {"+", "-", ".", "(", ")", "|"}),
      7, 20)

\* lines 154-165: the corrections from the k-th on
RECURSIVE CorrectDigitsFrom(_, _)
CorrectDigitsFrom(text, k) ==
  IF k > Len(OCR_DIGIT_CORRECTIONS) \/ text = <<>> THEN text
  ELSE CorrectDigitsFrom(
         ReplaceWithin(text, MatchesFrom(PhoneChunk, text, 1), 1, 1, 0, 0,
                       OCR_DIGIT_CORRECTIONS[k].from,
                       OCR_DIGIT_CORRECTIONS[k].to), k + 1)

PhoneApplyOCRCorrections(text) == CorrectDigitsFrom(text, 1)

\* lines 288-290: phone.replace(/\D/g, '')
NormalizePhone(phone) ==
  Pick(phone, {i \in 1..Len(phone) : phone[i] \in Digits})

StartsWith(s, prefix) ==
  Len(s) >= Len(prefix) /\ SubSeq(s, 1, Len(prefix)) = prefix

\* line 266: replace(/(\+\d{1,3})(\d{3})(\d{3})(\d{4})/, '$1 $2-$3-$4') on a
\* plus sign followed by digits; the first group takes as many digits as
\* leave ten for the other groups
InternationalGroups(s, at) ==
  SubSeq(s, 1, at - 1) \o <<" ">> \o SubSeq(s, at, at + 2) \o <<"-">> \o
  SubSeq(s, at + 3, at + 5) \o <<"-">> \o SubSeq(s, at + 6, at + 9) \o
  SubSeq(s, at + 10, Len(s))

InternationalMatched(s, m) ==
  IF ~m.found THEN s ELSE InternationalGroups(s, m.end - 10)

FormatInternational(s) ==
  InternationalMatched(
    s, MatchFrom(Cat(<<Cls({"+"}), Rep(Digit, 1, 3), Times(Digit, 10)>>),
                 s, 1))

\* lines 259-283
WithExtension(formatted, extension) ==
  IF extension # <<>>
  THEN formatted \o <<" ", "e", "x", "t", ".", " ">> \o extension
  ELSE formatted

FormattedDigits(phone, digitsOnly) ==
  IF Len(digitsOnly) = 10
  THEN <<"(">> \o SubSeq(digitsOnly, 1, 3) \o <<")", " ">> \o
       SubSeq(digitsOnly, 4, 6) \o <<"-">> \o SubSeq(digitsOnly, 7, 10)
  ELSE IF Len(digitsOnly) = 11 /\ StartsWith(digitsOnly, <<"1">>)
  THEN <<"+", "1", " ", "(">> \o SubSeq(digitsOnly, 2, 4) \o <<")", " ">> \o
       SubSeq(digitsOnly, 5, 7) \o <<"-">> \o SubSeq(digitsOnly, 8, 11)
  ELSE phone

FormatPhone(phone, extension) ==
  WithExtension(
    IF StartsWith(phone, <<"+">>)
    THEN FormatInternational(
           Pick(phone, {i \in 1..Len(phone) : phone[i] \in Digits \cup {"+"}}))
    ELSE FormattedDigits(phone, NormalizePhone(phone)),
    extension)

\* lines 240-254
DetectPhoneType(context) ==
  IF IncludesSome(ToLowerCase(context), MOBILE_INDICATORS) THEN "mobile"
  ELSE "office"

\* lines 171-211, 217-219: the confidence before it is clamped
PhoneScore(cleanPhone, baseConfidence, hadCorrections) ==
  LET n == Len(NormalizePhone(cleanPhone))
      c1 == IF n < 7 THEN 0
            ELSE IF n = 7 THEN baseConfidence - 20
            ELSE IF n = 10 THEN baseConfidence + 5
            ELSE IF n = 11 /\ StartsWith(NormalizePhone(cleanPhone), <<"1">>)
            THEN baseConfidence + 10
            ELSE IF n > 11 THEN baseConfidence + 5
            ELSE baseConfidence
      c2 == IF Len(cleanPhone) >= 2 /\ cleanPhone[1] = "+" /\
               cleanPhone[2] \in Digits
            THEN c1 + 5 ELSE c1
  IN  IF hadCorrections THEN c2 - 5 ELSE c2

\* line 228: Math.max(0, Math.min(100, Math.round(confidence)))
ClampPhone(x) == Clamp(0, 100, x)

\* lines 170-235; the extension is searched without regard to case
\* lines 176-179: the digits of the extension, which follow its marker
ExtensionDigits(rawPhone, m) ==
  IF m.found
  THEN SubSeq(rawPhone,
              MatchFrom(Rep(Digit, 1, 4), rawPhone,
                        Head(Ends(Cat(<<Alt(<<Lit(<<"e", "x", "t">>),
                                              Lit(<<"e", "x", "t", "e", "n", "s", "i", "o", "n">>),
                                              Lit(<<"x">>), Lit(<<"#">>)>>),
                                        Sep>>),
                                  ToLowerCase(rawPhone), m.index))).index,
              m.end - 1)
  ELSE <<>>

\* line 178: the phone without the extension
WithoutExtension(rawPhone, m) ==
  IF m.found
  THEN Trim(SubSeq(rawPhone, 1, m.index - 1) \o
            SubSeq(rawPhone, m.end, Len(rawPhone)))
  ELSE Trim(rawPhone)

\* lines 181-234
PhoneParsed(rawPhone, cleanPhone, extension, baseConfidence, hadCorrections,
            originalText) ==
  [phone |-> rawPhone,
   formatted |-> FormatPhone(cleanPhone, extension),
   confidence |->
     ClampPhone(PhoneScore(cleanPhone, baseConfidence, hadCorrections)),
   type |-> DetectPhoneType(originalText),
   isValid |-> Len(NormalizePhone(cleanPhone)) >= 7]

ExtensionSplit(rawPhone, m, baseConfidence, hadCorrections, originalText) ==
  PhoneParsed(rawPhone, WithoutExtension(rawPhone, m),
              ExtensionDigits(rawPhone, m), baseConfidence, hadCorrections,
              originalText)

ParseAndValidate(rawPhone, baseConfidence, hadCorrections, originalText) ==
  ExtensionSplit(rawPhone, MatchFrom(ExtensionPart, ToLowerCase(rawPhone), 1),
                 baseConfidence, hadCorrections, originalText)

\* lines 128-135: the comparator of the sort is negative
PhoneTypeOrder(type) == IF type = "office" THEN 3 ELSE 2
PhoneBefore(a, b) ==
  IF a.type # b.type THEN PhoneTypeOrder(b.type) - PhoneTypeOrder(a.type) < 0
  ELSE b.confidence - a.confidence < 0

RECURSIVE SortPhones(_)
SortPhones(arr) ==
  IF arr = <<>> THEN <<>>
  ELSE LET rest == SortPhones(SubSeq(arr, 1, Len(arr) - 1))
           x == arr[Len(arr)]
           k == Cardinality({i \in 1..Len(rest) : ~PhoneBefore(x, rest[i])})
       IN  SubSeq(rest, 1, k) \o <<x>> \o SubSeq(rest, k + 1, Len(rest))

\* lines 112-124: the while loop over one pattern, begun with the lastIndex
\* li the pattern was left with; a phone seen before is skipped
RECURSIVE PhoneLoop(_, _, _, _, _)
\* lines 121-122: a valid result is pushed
PhoneAdded(acc, normalized, result) ==
  [acc EXCEPT !.processedPhones = @ \cup {normalized},
              !.results = IF result.isValid THEN Append(@, result) ELSE @]

\* lines 112-124: what the loop does with the outcome of one exec
PhoneStep(p, text, correctedText, acc, match) ==
  LET rawPhone == Trim(Matched(correctedText, match))
      normalized == NormalizePhone(rawPhone)
  IN  IF ~match.found THEN [acc EXCEPT !.lastIndex = LastIndexAfter(match)]
      ELSE PhoneLoop(p, text, correctedText, LastIndexAfter(match),
                     IF normalized \in acc.processedPhones THEN acc
                     ELSE PhoneAdded(acc, normalized,
                                     ParseAndValidate(rawPhone, p.confidence,
                                                      text # correctedText,
                                                      text)))

PhoneLoop(p, text, correctedText, li, acc) ==
  PhoneStep(p, text, correctedText, acc, Exec(p.pattern, correctedText, li))

RECURSIVE PhonePatternsFrom(_, _, _, _, _)
\* line 108: the next pattern starts from what the loop of this one left
PhonePatternDone(text, correctedText, k, li, name, done) ==
  PhonePatternsFrom(text, correctedText, k + 1,
                    [li EXCEPT ![name] = done.lastIndex], done)

PhonePatternsFrom(text, correctedText, k, li, acc) ==
  IF k > Len(PHONE_PATTERNS) THEN [acc EXCEPT !.lastIndex = li]
  ELSE PhonePatternDone(text, correctedText, k, li, PHONE_PATTERNS[k].name,
                        PhoneLoop(PHONE_PATTERNS[k], text, correctedText,
                                  li[PHONE_PATTERNS[k].name], acc))

\* lines 100-136: the sorted results and the lastIndex values left behind
PhonesOf(done) ==
  [results |-> SortPhones(done.results), lastIndex |-> done.lastIndex]

ExtractPhones(text, li) ==
  PhonesOf(PhonePatternsFrom(text, PhoneApplyOCRCorrections(text), 1, li,
                             [processedPhones |-> {}, results |-> <<>>,
                              lastIndex |-> 0]))

\* lines 141-149
GetPrimaryPhone(results) ==
  LET office == {i \in 1..Len(results) : results[i].type = "office"}
  IN  IF office # {} THEN <<results[MinOf(office)]>>
      ELSE IF results # <<>> THEN <<results[1]>> ELSE <<>>

\* ------------------------------------------------------------- NameParser
\* lines 17-19
TITLE_PREFIXES == {<<"m", "r">>, <<"m", "r", "s">>, <<"m", "s">>, <<"m", "i", "s", "s">>,
   <<"d", "r">>, <<"p", "r", "o", "f">>,
   <<"p", "r", "o", "f", "e", "s", "s", "o", "r">>, <<"r", "e", "v">>,
   <<"r", "e", "v", "e", "r", "e", "n", "d">>}

\* lines 21-39
TITLE_KEYWORDS ==
  {<<"c", "e", "o">>, <<"c", "t", "o">>, <<"c", "f", "o">>, <<"c", "o", "o">>,
   <<"p", "r", "e", "s", "i", "d", "e", "n", "t">>,
   <<"v", "i", "c", "e", " ", "p", "r", "e", "s", "i", "d", "e", "n", "t">>,
   <<"v", "p">>, <<"s", "v", "p">>,
   <<"d", "i", "r", "e", "c", "t", "o", "r">>,
   <<"m", "a", "n", "a", "g", "i", "n", "g", " ", "d", "i", "r", "e", "c", "t", "o", "r">>,
   <<"e", "x", "e", "c", "u", "t", "i", "v", "e", " ", "d", "i", "r", "e", "c", "t", "o", "r">>,
   <<"r", "e", "g", "i", "o", "n", "a", "l", " ", "d", "i", "r", "e", "c", "t", "o", "r">>,
   <<"m", "a", "n", "a", "g", "e", "r">>,
   <<"s", "e", "n", "i", "o", "r", " ", "m", "a", "n", "a", "g", "e", "r">>,
   <<"g", "e", "n", "e", "r", "a", "l", " ", "m", "a", "n", "a", "g", "e", "r">>,
   <<"p", "r", "o", "j", "e", "c", "t", " ", "m", "a", "n", "a", "g", "e", "r">>,
   <<"p", "r", "o", "d", "u", "c", "t", " ", "m", "a", "n", "a", "g", "e", "r">>,
   <<"s", "e", "n", "i", "o", "r">>, <<"l", "e", "a", "d">>,
   <<"t", "e", "a", "m", " ", "l", "e", "a", "d">>,
   <<"t", "e", "c", "h", " ", "l", "e", "a", "d">>, <<"h", "e", "a", "d">>,
   <<"c", "h", "i", "e", "f">>,
   <<"p", "r", "i", "n", "c", "i", "p", "a", "l">>,
   <<"a", "s", "s", "o", "c", "i", "a", "t", "e">>,
   <<"s", "e", "n", "i", "o", "r", " ", "a", "s", "s", "o", "c", "i", "a", "t", "e">>,
   <<"c", "o", "o", "r", "d", "i", "n", "a", "t", "o", "r">>,
   <<"s", "p", "e", "c", "i", "a", "l", "i", "s", "t">>,
   <<"s", "e", "n", "i", "o", "r", " ", "s", "p", "e", "c", "i", "a", "l", "i", "s", "t">>,
   <<"a", "n", "a", "l", "y", "s", "t">>,
   <<"s", "e", "n", "i", "o", "r", " ", "a", "n", "a", "l", "y", "s", "t">>,
   <<"c", "o", "n", "s", "u", "l", "t", "a", "n", "t">>,
   <<"s", "e", "n", "i", "o", "r", " ", "c", "o", "n", "s", "u", "l", "t", "a", "n", "t">>,
   <<"p", "a", "r", "t", "n", "e", "r">>,
   <<"e", "n", "g", "i", "n", "e", "e", "r">>,
   <<"s", "o", "f", "t", "w", "a", "r", "e", " ", "e", "n", "g", "i", "n", "e", "e", "r">>,
   <<"s", "e", "n", "i", "o", "r", " ", "e", "n", "g", "i", "n", "e", "e", "r">>,
   <<"s", "t", "a", "f", "f", " ", "e", "n", "g", "i", "n", "e", "e", "r">>,
   <<"d", "e", "v", "e", "l", "o", "p", "e", "r">>,
   <<"s", "e", "n", "i", "o", "r", " ", "d", "e", "v", "e", "l", "o", "p", "e", "r">>,
   <<"s", "o", "f", "t", "w", "a", "r", "e", " ", "d", "e", "v", "e", "l", "o", "p", "e", "r">>,
   <<"w", "e", "b", " ", "d", "e", "v", "e", "l", "o", "p", "e", "r">>,
   <<"d", "e", "s", "i", "g", "n", "e", "r">>,
   <<"s", "e", "n", "i", "o", "r", " ", "d", "e", "s", "i", "g", "n", "e", "r">>,
   <<"u", "x", " ", "d", "e", "s", "i", "g", "n", "e", "r">>,
   <<"u", "i", " ", "d", "e", "s", "i", "g", "n", "e", "r">>,
   <<"a", "r", "c", "h", "i", "t", "e", "c", "t">>,
   <<"s", "o", "f", "t", "w", "a", "r", "e", " ", "a", "r", "c", "h", "i", "t", "e", "c", "t">>,
   <<"s", "o", "l", "u", "t", "i", "o", "n", " ", "a", "r", "c", "h", "i", "t", "e", "c", "t">>,
   <<"e", "n", "t", "e", "r", "p", "r", "i", "s", "e", " ", "a", "r", "c", "h", "i", "t", "e", "c", "t">>,
   <<"s", "u", "p", "e", "r", "v", "i", "s", "o", "r">>,
   <<"e", "x", "e", "c", "u", "t", "i", "v", "e">>,
   <<"a", "d", "m", "i", "n", "i", "s", "t", "r", "a", "t", "o", "r">>,
   <<"a", "d", "m", "i", "n">>,
   <<"a", "s", "s", "i", "s", "t", "a", "n", "t">>,
   <<"s", "a", "l", "e", "s">>,
   <<"s", "a", "l", "e", "s", " ", "m", "a", "n", "a", "g", "e", "r">>,
   <<"s", "a", "l", "e", "s", " ", "d", "i", "r", "e", "c", "t", "o", "r">>,
   <<"s", "a", "l", "e", "s", " ", "e", "x", "e", "c", "u", "t", "i", "v", "e">>,
   <<"s", "a", "l", "e", "s", " ", "r", "e", "p">>,
   <<"m", "a", "r", "k", "e", "t", "i", "n", "g">>,
   <<"m", "a", "r", "k", "e", "t", "i", "n", "g", " ", "m", "a", "n", "a", "g", "e", "r">>,
   <<"m", "a", "r", "k", "e", "t", "i", "n", "g", " ", "d", "i", "r", "e", "c", "t", "o", "r">>,
   <<"m", "a", "r", "k", "e", "t", "i", "n", "g", " ", "s", "p", "e", "c", "i", "a", "l", "i", "s", "t">>,
   <<"h", "r">>,
   <<"h", "u", "m", "a", "n", " ", "r", "e", "s", "o", "u", "r", "c", "e", "s">>,
   <<"h", "r", " ", "m", "a", "n", "a", "g", "e", "r">>,
   <<"h", "r", " ", "d", "i", "r", "e", "c", "t", "o", "r">>,
   <<"h", "r", " ", "s", "p", "e", "c", "i", "a", "l", "i", "s", "t">>,
   <<"o", "p", "e", "r", "a", "t", "i", "o", "n", "s">>,
   <<"o", "p", "e", "r", "a", "t", "i", "o", "n", "s", " ", "m", "a", "n", "a", "g", "e", "r">>,
   <<"o", "p", "e", "r", "a", "t", "i", "o", "n", "s", " ", "d", "i", "r", "e", "c", "t", "o", "r">>,
   <<"o", "p", "s", " ", "m", "a", "n", "a", "g", "e", "r">>,
   <<"f", "i", "n", "a", "n", "c", "e">>,
   <<"f", "i", "n", "a", "n", "c", "e", " ", "m", "a", "n", "a", "g", "e", "r">>,
   <<"f", "i", "n", "a", "n", "c", "e", " ", "d", "i", "r", "e", "c", "t", "o", "r">>,
   <<"f", "i", "n", "a", "n", "c", "i", "a", "l", " ", "a", "n", "a", "l", "y", "s", "t">>,
   <<"o", "w", "n", "e", "r">>, <<"c", "o", "-", "o", "w", "n", "e", "r">>,
   <<"f", "o", "u", "n", "d", "e", "r">>,
   <<"c", "o", "-", "f", "o", "u", "n", "d", "e", "r">>}

\* [A-Z][a-z]+ and \s+
CapitalizedWord == Cat(<<Cls(UpperChars), Plus(Cls(LowerChars))>>)
Spaces == Plus(Cls(WhiteSpace))

\* lines 42-53
NAME_PATTERNS ==
  <<Cat(<<Bol, CapitalizedWord, Spaces, CapitalizedWord, Eol>>),
    Cat(<<Bol, CapitalizedWord, Spaces,
          Opt(Cat(<<Cls(UpperChars), Opt(Cls({"."})), Spaces>>)),
          CapitalizedWord, Eol>>),
    Cat(<<Bol, CapitalizedWord, Spaces,
          Opt(Cat(<<Cls(UpperChars), Cls({"."}), Spaces>>)),
          CapitalizedWord, Eol>>),
    Cat(<<Bol, CapitalizedWord, Spaces, CapitalizedWord, Cls({"-"}),
          CapitalizedWord, Eol>>),
    Cat(<<Bol, CapitalizedWord, Spaces, CapitalizedWord, Spaces,
          CapitalizedWord, Eol>>)>>

\* line.split(' ').filter(w => w.length > 0)
WordsOf(line) == SelectSeq(Split(line, " "), NonEmpty)

\* lines 133-164; no caller passes excludeCompany.  letterCount / totalCount
\* < 0.6 is compared in whole numbers
IsNotName(line) ==
  \/ Includes(line, <<"@">>)
  \/ HasThreeDigits(line)
  \/ Len(line) < 3
  \/ Len(line) > 60
  \/ ToLowerCase(line) \in TITLE_KEYWORDS
  \/ 5 * Cardinality({i \in 1..Len(line) : IsLetter(line[i])}) < 3 * Len(line)

\* .replace(/\s+/g, ' ')
CollapseSpaces(s) ==
  Pick([i \in 1..Len(s) |-> IF s[i] \in WhiteSpace THEN " " ELSE s[i]],
       {i \in 1..Len(s) :
          ~(s[i] \in WhiteSpace /\ i > 1 /\ s[i - 1] \in WhiteSpace)})

\* .replace(/[^\w\s.-]/g, '')
KeepNameChars(s) ==
  Pick(s, {i \in 1..Len(s) :
             s[i] \in WordChars \cup WhiteSpace \cup {".", "-"}})

\* lines 169-177
CleanNameLine(line) ==
  Trim(KeepNameChars(CollapseSpaces(
         ReplaceAll(ReplaceAll(line, <<"|">>, <<"I">>), <<"r", "n">>, <<"m">>))))

\* words[i].toLowerCase().replace(/[.,]$/, '')
PrefixWord(word) ==
  LET lower == ToLowerCase(word)
  IN  IF lower[Len(lower)] \in {".", ","}
      THEN SubSeq(lower, 1, Len(lower) - 1) ELSE lower

NoTitle(line) == [name |-> line, title |-> Unset]

\* lines 189-196: the split after the word of index i, counted from 0
PrefixAt(words, i) ==
  [title |-> Join(SubSeq(words, 1, i + 1), " "),
   name |-> Join(SubSeq(words, i + 2, Len(words)), " ")]

IsPrefixAt(words, i) ==
  /\ PrefixWord(words[i + 1]) \in TITLE_PREFIXES \cup TITLE_KEYWORDS
  /\ Len(PrefixAt(words, i).name) >= 3

\* lines 182-200
ExtractTitlePrefix(line) ==
  LET words == WordsOf(line)
      found == {i \in 0..(MinOf({2, Len(words) - 1}) - 1) :
                  IsPrefixAt(words, i)}
  IN  IF found = {} THEN NoTitle(line) ELSE PrefixAt(words, MinOf(found))

\* line 237: /^[A-Z][a-z]*/.test(word)
StartsCapital(word) == Len(word) > 0 /\ word[1] \in UpperChars

\* lines 230-244
NameLooksLikeName(text) ==
  LET words == WordsOf(Trim(text))
  IN  /\ Len(words) >= 1
      /\ Len(words) <= 4
      /\ \A i \in 1..Len(words) : StartsCapital(words[i])
      /\ ~IncludesSome(ToLowerCase(text), TITLE_KEYWORDS)

\* lines 212-219: the split before the word of index i, counted from 0
SuffixAt(words, i) ==
  [name |-> Join(SubSeq(words, 1, i), " "),
   title |-> Join(SubSeq(words, i + 1, Len(words)), " ")]

IsSuffixAt(words, i) ==
  /\ IncludesSome(ToLowerCase(SuffixAt(words, i).title), TITLE_KEYWORDS)
  /\ Len(SuffixAt(words, i).name) >= 3
  /\ NameLooksLikeName(SuffixAt(words, i).name)

\* lines 205-225: the last split that qualifies
ExtractTitleSuffix(line) ==
  LET words == WordsOf(line)
      found == {i \in MaxOf({0, Len(words) - 3})..(Len(words) - 1) :
                  IsSuffixAt(words, i)}
  IN  IF Len(words) < 2 \/ found = {} THEN NoTitle(line)
      ELSE SuffixAt(words, MaxOf(found))

\* lines 249-284
ValidateName(name) ==
  LET words == WordsOf(name)
      matched == \E k \in 1..Len(NAME_PATTERNS) : Test(NAME_PATTERNS[k], name)
      tooMany == Len(words) > 4
      odd == \E i \in 1..Len(words) : Len(words[i]) < 2 \/ Len(words[i]) > 15
      hasDigit == \E i \in 1..Len(name) : name[i] \in Digits
  IN  IF Len(words) < 2 \/ hasDigit
      THEN [isValid |-> FALSE, confidenceBoost |-> 0]
      ELSE [isValid |-> TRUE,
            confidenceBoost |-> (IF matched THEN 20 ELSE 0) -
                                (IF tooMany THEN 10 ELSE 0) -
                                (IF odd THEN 5 ELSE 0)]

\* lines 293-303: one word of the name
FormatWord(word) ==
  IF Includes(word, <<"-">>)
  THEN LET parts == Split(word, "-")
       IN  Join([i \in 1..Len(parts) |-> Capitalize(parts[i])], "-")
  ELSE IF Len(word) = 1 \/ (Len(word) = 2 /\ word[2] = ".")
  THEN ToUpperCase(word)
  ELSE Capitalize(word)

\* lines 289-306
FormatName(name) ==
  LET words == Split(name, " ")
  IN  Join([i \in 1..Len(words) |-> FormatWord(words[i])], " ")

\* line 122: Math.min(95, confidence)
CapName(confidence) == IF confidence > 95 THEN 95 ELSE confidence

\* lines 75-128: no result, or the one result
\* lines 76-79, 110-127: the result once the titles are separated
NameResult(line, cleanLine, extractedTitle, confidence, validationResult) ==
  IF IsNotName(line) \/ ~validationResult.isValid THEN <<>>
  ELSE <<[name |-> FormatName(cleanLine),
          confidence |->
            CapName(confidence + validationResult.confidenceBoost),
          title |-> extractedTitle]>>

NameValidated(line, cleanLine, extractedTitle, confidence) ==
  NameResult(line, cleanLine, extractedTitle, confidence,
             ValidateName(cleanLine))

\* lines 100-107
SuffixSeparated(line, afterPrefix, prefixTitle, suffixResult) ==
  NameValidated(
    line,
    IF suffixResult.title # Unset THEN suffixResult.name ELSE afterPrefix,
    IF suffixResult.title = Unset THEN prefixTitle
    ELSE IF prefixTitle # Unset
    THEN prefixTitle \o <<",", " ">> \o suffixResult.title
    ELSE suffixResult.title,
    60 + (IF prefixTitle # Unset THEN 10 ELSE 0) +
    (IF suffixResult.title # Unset THEN 15 ELSE 0))

AfterPrefix(line, afterPrefix, prefixTitle) ==
  SuffixSeparated(line, afterPrefix, prefixTitle,
                  ExtractTitleSuffix(afterPrefix))

\* lines 90-97
PrefixSeparated(line, cleanLine, prefixResult) ==
  AfterPrefix(line,
              IF prefixResult.title # Unset THEN prefixResult.name
              ELSE cleanLine,
              prefixResult.title)

\* line 87
NameCleaned(line, cleanLine) ==
  PrefixSeparated(line, cleanLine, ExtractTitlePrefix(cleanLine))

ParseNameFromLine(line) == NameCleaned(line, CleanNameLine(line))

\* lines 58-70: the result of the first line that has one
FirstValid(results) ==
  IF \A i \in DOMAIN results : results[i] = <<>> THEN <<>>
  ELSE results[MinOf({i \in DOMAIN results : results[i] # <<>>})]

NamesOfLines(lines) ==
  FirstValid([i \in 1..Len(lines) |-> ParseNameFromLine(lines[i])])

ExtractName(text) == NamesOfLines(LinesOf(text))

\* ------------------------------------------- OCRService: field detection
\* line 644: /\b\d{5}(-\d{4})?\b/
ZipPattern ==
  Cat(<<WordBoundary, Times(Digit, 5),
        Opt(Cat(<<Cls({"-"}), Times(Digit, 4)>>)), WordBoundary>>)

\* lines 645-648; the first pattern ignores case and is matched against the
\* line in lower case
StreetWords ==
  <<Lit(<<"s", "t", "r", "e", "e", "t">>), Lit(<<"s", "t">>), Lit(<<"a", "v", "e", "n", "u", "e">>), Lit(<<"a", "v", "e">>), Lit(<<"r", "o", "a", "d">>),
    Lit(<<"r", "d">>), Lit(<<"d", "r", "i", "v", "e">>), Lit(<<"d", "r">>), Lit(<<"l", "a", "n", "e">>), Lit(<<"l", "n">>),
    Lit(<<"b", "o", "u", "l", "e", "v", "a", "r", "d">>), Lit(<<"b", "l", "v", "d">>), Lit(<<"w", "a", "y">>), Lit(<<"p", "l", "a", "c", "e">>), Lit(<<"p", "l">>),
    Lit(<<"c", "o", "u", "r", "t">>), Lit(<<"c", "t">>)>>

StreetPatterns ==
  <<Cat(<<Plus(Digit), Spaces, Plus(Cls(WordChars \cup WhiteSpace)),
          Alt(StreetWords), WordBoundary>>),
    Cat(<<Plus(Digit), Spaces, Plus(Cls(WordChars \cup WhiteSpace)),
          WordBoundary>>)>>

IsStreet(line) ==
  \/ Test(StreetPatterns[1], ToLowerCase(line))
  \/ Test(StreetPatterns[2], line)

\* String.prototype.indexOf, counted from 1; the substring occurs
FirstIndexOf(s, sub) ==
  MinOf({i \in 1..(Len(s) - Len(sub) + 1) :
           SubSeq(s, i, i + Len(sub) - 1) = sub})

\* lines 656-670: the zip code, the state and the city of the line that
\* holds the match m of the zip pattern
ZipLine(line, m) ==
  LET zip == Matched(line, m)
      beforeZip == Trim(SubSeq(line, 1, FirstIndexOf(line, zip) - 1))
      n == Len(beforeZip)
      hasState == n >= 2 /\ beforeZip[n - 1] \in UpperChars /\
                  beforeZip[n] \in UpperChars
      cityPart == Trim(SubSeq(beforeZip, 1, n - 2))
  IN  [NoAddress EXCEPT
         !.zip = zip,
         !.state = IF hasState THEN SubSeq(beforeZip, n - 1, n) ELSE Unset,
         !.city = IF ~hasState THEN Unset
                  ELSE IF cityPart # <<>> /\ cityPart[Len(cityPart)] = ","
                  THEN Trim(SubSeq(cityPart, 1, Len(cityPart) - 1))
                  ELSE cityPart]

\* lines 692-700
FullAddress(a) ==
  LET cityState == a.city \o
                   (IF a.state # Unset THEN <<",", " ">> \o a.state ELSE <<>>) \o
                   (IF a.zip # Unset THEN <<" ">> \o a.zip ELSE <<>>)
  IN  IF a.street # Unset /\ a.city # Unset
      THEN a.street \o <<",", " ">> \o cityState
      ELSE IF a.street # Unset THEN a.street
      ELSE IF a.city # Unset THEN cityState
      ELSE <<>>

\* lines 642-706: no address, or the one address
ExtractAddress(lines) ==
  LET zips == {i \in 1..Len(lines) : Test(ZipPattern, lines[i])}
      z == MinOf(zips)
      byZip == IF zips = {} THEN NoAddress
               ELSE ZipLine(lines[z], MatchFrom(ZipPattern, lines[z], 1))
      streets == {i \in 1..Len(lines) :
                    /\ (zips = {} \/ lines[i] # lines[z])
                    /\ IsStreet(lines[i])}
      address == [byZip EXCEPT
                    !.street = IF streets = {} THEN Unset
                               ELSE lines[MinOf(streets)]]
  IN  IF address.street # Unset \/ address.city # Unset \/
         address.zip # Unset
      THEN <<[address EXCEPT !.full = FullAddress(address)]>>
      ELSE <<>>

\* lines 1019-1028
CalculateAddressConfidence(address) ==
  LET confidence == (IF address.street # Unset THEN 30 ELSE 0) +
                    (IF address.city # Unset THEN 25 ELSE 0) +
                    (IF address.state # Unset THEN 20 ELSE 0) +
                    (IF address.zip # Unset THEN 25 ELSE 0)
  IN  IF confidence > 95 THEN 95 ELSE confidence

\* Math.max(80, primaryEmail.confidence - 10)
WebsiteConfidence(emailConfidence) ==
  IF emailConfidence - 10 > 80 THEN emailConfidence - 10 ELSE 80

\* lines 730-739 and 556-565: the email and the website derived from it
WithPrimaryEmail(contactData, emailResults) ==
  LET primaryEmail == GetPrimaryEmail(emailResults)
  IN  IF primaryEmail = <<>> THEN contactData
      ELSE [contactData EXCEPT
              !.email = primaryEmail[1].email,
              !.website = DeriveWebsite(primaryEmail[1].email),
              !.fieldConfidences =
                 Put(Put(@, "email", primaryEmail[1].confidence), "website",
                     WebsiteConfidence(primaryEmail[1].confidence))]

\* lines 742-749 and 568-575
WithPrimaryPhone(contactData, phoneResults) ==
  LET primaryPhone == GetPrimaryPhone(phoneResults)
  IN  IF primaryPhone = <<>> THEN contactData
      ELSE [contactData EXCEPT
              !.phone = primaryPhone[1].formatted,
              !.fieldConfidences = Put(@, "phone", primaryPhone[1].confidence)]

\* lines 726-750: the record, and the lastIndex values the two parsers leave
ContactInfoWithPhones(contactData, emailResults, phones) ==
  [contactData |->
     WithPrimaryPhone(WithPrimaryEmail(contactData, emailResults),
                      phones.results),
   lastIndex |-> phones.lastIndex]

ContactInfoWithEmails(contactData, text, emails) ==
  ContactInfoWithPhones(contactData, emails.results,
                        ExtractPhones(text, emails.lastIndex))

DetectContactInfoWithStructure(contactData, text, li) ==
  ContactInfoWithEmails(contactData, text, ExtractEmails(text, li))

\* Math.max(70, nameResult.confidence - 10)
SeparatedTitleConfidence(nameConfidence) ==
  IF nameConfidence - 10 > 70 THEN nameConfidence - 10 ELSE 70

\* lines 756-771 and 578-593
WithName(contactData, nameResult) ==
  IF nameResult = <<>> THEN contactData
  ELSE IF nameResult[1].title = Unset
  THEN [contactData EXCEPT
          !.name = nameResult[1].name,
          !.fieldConfidences = Put(@, "name", nameResult[1].confidence)]
  ELSE [contactData EXCEPT
          !.name = nameResult[1].name,
          !.title = nameResult[1].title,
          !.fieldConfidences =
             Put(Put(@, "name", nameResult[1].confidence), "title",
                 SeparatedTitleConfidence(nameResult[1].confidence))]

\* CompanyParser.extractCompany: no result, or a line of the text as the
\* company with a confidence
CompanyConfidences == {45, 85}

CompanyResults(text) ==
  {<<>>} \cup
  {<<[company |-> LinesOf(text)[i], confidence |-> c]>> :
     i \in 1..Len(LinesOf(text)), c \in CompanyConfidences}

\* lines 774-779 and 596-601
WithCompany(contactData, companyResult) ==
  IF companyResult = <<>> THEN contactData
  ELSE [contactData EXCEPT
          !.company = companyResult[1].company,
          !.fieldConfidences = Put(@, "company", companyResult[1].confidence)]

\* lines 849-879: the candidate of the k-th of the lines middle, top, bottom
TitleCandidate(layout, k) ==
  LET allLines == layout.middleLines \o layout.topLines \o layout.bottomLines
      text == Trim(allLines[k].text)
      matching == Cardinality({kw \in TitleKeywords :
                                 Includes(ToLowerCase(text), kw)})
      confidence == 70 + matching * 10 +
                    (IF k <= Len(layout.middleLines) THEN 15 ELSE 0)
  IN  [text |-> text,
       confidence |-> IF confidence > 95 THEN 95 ELSE confidence,
       priority |-> confidence,
       isCandidate |-> /\ matching > 0
                       /\ Len(text) > 2
                       /\ Len(text) < 40
                       /\ ~Includes(text, <<"@">>)
                       /\ ~HasThreeDigits(text)]

\* lines 840-882, 933-963: the candidates sorted by priority, the sort being
\* stable, and the first of them with a confidence of 60 or more
WithTitleCandidate(contactData, layout) ==
  LET n == Len(layout.middleLines) + Len(layout.topLines) +
           Len(layout.bottomLines)
      valid == {k \in 1..n : /\ TitleCandidate(layout, k).isCandidate
                             /\ TitleCandidate(layout, k).confidence >= 60}
      best == MinOf({k \in valid :
                       \A j \in valid : TitleCandidate(layout, k).priority >=
                                        TitleCandidate(layout, j).priority})
  IN  IF valid = {} THEN contactData
      ELSE [contactData EXCEPT
              !.title = TitleCandidate(layout, best).text,
              !.fieldConfidences =
                 Put(@, "title", TitleCandidate(layout, best).confidence)]

\* lines 788-793
WithAddressConfidence(contactData, addressData) ==
  IF addressData = <<>> THEN contactData
  ELSE [contactData EXCEPT
          !.address = addressData[1],
          !.fieldConfidences =
             Put(@, "address", CalculateAddressConfidence(addressData[1]))]

\* lines 752-794
\* lines 780-790: a title is looked for in the layout when the name had none
WithTitleOfLayout(named, layout) ==
  IF named.title = Unset THEN WithTitleCandidate(named, layout) ELSE named

DetectFieldsWithStructure(contactData, layout, lines, companyResult) ==
  WithAddressConfidence(
    WithTitleOfLayout(
      WithCompany(WithName(contactData, ExtractName(contactData.raw_text)),
                  companyResult),
      layout),
    ExtractAddress(lines))

\* lines 968-978
ArbiterTitleKeywords == {<<"c", "e", "o">>, <<"c", "t", "o">>, <<"c", "f", "o">>,
   <<"p", "r", "e", "s", "i", "d", "e", "n", "t">>, <<"v", "p">>,
   <<"d", "i", "r", "e", "c", "t", "o", "r">>,
   <<"m", "a", "n", "a", "g", "e", "r">>}

Rule1(contactData) ==
  IF /\ contactData.name # Unset
     /\ contactData.title # Unset
     /\ IncludesSome(ToLowerCase(contactData.name), ArbiterTitleKeywords)
  THEN [contactData EXCEPT !.name = Unset,
                           !.fieldConfidences = Put(@, "name", 0)]
  ELSE contactData

\* lines 980-986
Rule2(contactData) ==
  IF /\ contactData.name # Unset
     /\ contactData.company # Unset
     /\ ToLowerCase(contactData.name) = ToLowerCase(contactData.company)
  THEN [contactData EXCEPT !.company = Unset,
                           !.fieldConfidences = Put(@, "company", 0)]
  ELSE contactData

\* lines 988-1003
ArbiterBusinessKeywords == {<<"l", "l", "c">>, <<"i", "n", "c">>, <<"c", "o", "r", "p">>,
   <<"c", "o", "m", "p", "a", "n", "y">>}

\* line 995 with the test of the company left out
Rule3AnyCompany(contactData) ==
  IF /\ contactData.title # Unset
     /\ IncludesSome(ToLowerCase(contactData.title), ArbiterBusinessKeywords)
     /\ contactData.fieldConfidences["title"] < 80
  THEN [contactData EXCEPT
          !.company = contactData.title,
          !.title = Unset,
          !.fieldConfidences =
             Put(Put(@, "company", contactData.fieldConfidences["title"]),
                 "title", 0)]
  ELSE contactData

Rule3(contactData) ==
  IF /\ contactData.title # Unset
     /\ IncludesSome(ToLowerCase(contactData.title), ArbiterBusinessKeywords)
     /\ contactData.company = Unset
     /\ contactData.fieldConfidences["title"] < 80
  THEN [contactData EXCEPT
          !.company = contactData.title,
          !.title = Unset,
          !.fieldConfidences =
             Put(Put(@, "company", contactData.fieldConfidences["title"]),
                 "title", 0)]
  ELSE contactData

\* lines 1005-1014: a confidence that is absent is below no floor
Below(contactData, field, floor) ==
  /\ Has(contactData.fieldConfidences, field)
  /\ contactData.fieldConfidences[field] < floor

Rule4(contactData) ==
  [contactData EXCEPT
     !.name = IF Below(contactData, "name", 50) THEN Unset ELSE @,
     !.title = IF Below(contactData, "title", 60) THEN Unset ELSE @,
     !.company = IF Below(contactData, "company", 50) THEN Unset ELSE @]

\* the rules with rule 2 ahead of rule 1
ArbitrationRule2First(contactData) ==
  [entering |-> contactData,
   afterRule1 |-> Rule1(Rule2(contactData)),
   afterRule2 |-> Rule1(Rule2(contactData)),
   afterRule3 |-> Rule3(Rule1(Rule2(contactData))),
   afterRule4 |-> Rule4(Rule3(Rule1(Rule2(contactData))))]

\* lines 965-1017: the record as the rules find it and leave it
Arbitration(contactData) ==
  [entering |-> contactData,
   afterRule1 |-> Rule1(contactData),
   afterRule2 |-> Rule2(Rule1(contactData)),
   afterRule3 |-> Rule3(Rule2(Rule1(contactData))),
   afterRule4 |-> Rule4(Rule3(Rule2(Rule1(contactData))))]

ValidateAndCleanFields(contactData) == Arbitration(contactData).afterRule4

\* lines 604-630: the keywords of the fallback title detection
BasicTitleKeywords ==
  TitleKeywords \cup
  {<<"m", "a", "r", "k", "e", "t", "i", "n", "g", " ", "d", "i", "r", "e", "c", "t", "o", "r">>,
   <<"s", "e", "n", "i", "o", "r", " ", "s", "o", "f", "t", "w", "a", "r", "e", " ", "e", "n", "g", "i", "n", "e", "e", "r">>,
   <<"s", "o", "f", "t", "w", "a", "r", "e", " ", "e", "n", "g", "i", "n", "e", "e", "r">>}

IsBasicTitle(contactData, line) ==
  /\ IncludesSome(ToLowerCase(line), BasicTitleKeywords)
  /\ line # contactData.name
  /\ line # contactData.company
  /\ ~Includes(line, <<"@">>)
  /\ ~HasThreeDigits(line)
  /\ Len(line) > 2
  /\ Len(line) < 50

WithBasicTitle(contactData, lines) ==
  LET titles == {i \in 1..Len(lines) : IsBasicTitle(contactData, lines[i])}
  IN  IF contactData.title # Unset \/ titles = {} THEN contactData
      ELSE [contactData EXCEPT
              !.title = lines[MinOf(titles)],
              !.fieldConfidences = Put(@, "title", 75)]

\* lines 633-637: the address, without a confidence
WithAddress(contactData, addressData) ==
  IF addressData = <<>> THEN contactData
  ELSE [contactData EXCEPT !.address = addressData[1]]

\* lines 543-640: the record, and the lastIndex values the parsers leave
BasicFields(contact, text, lines, companyResult) ==
  [contactData |->
     WithAddress(
       WithBasicTitle(
         WithCompany(WithName(contact.contactData, ExtractName(text)),
                     companyResult),
         lines),
       ExtractAddress(lines)),
   lastIndex |-> contact.lastIndex]

ParseContactDataBasicOf(ocrResult, li, companyResult) ==
  BasicFields(DetectContactInfoWithStructure(
                NewContactData(ocrResult.text, ocrResult.confidence),
                ocrResult.text, li),
              ocrResult.text, LinesOf(ocrResult.text), companyResult)

\* lines 295-315: the record, what the arbiter saw, and the lastIndex values
ArbiterReturned(arbiter, li) ==
  [contactData |-> arbiter.afterRule4, arbiter |-> arbiter, lastIndex |-> li]

LayoutFields(contact, layout, lines, companyResult) ==
  ArbiterReturned(
    Arbitration(DetectFieldsWithStructure(contact.contactData, layout, lines,
                                          companyResult)),
    contact.lastIndex)

DetectFieldsWithLayoutOf(layout, lines, text, li, companyResult) ==
  LayoutFields(DetectContactInfoWithStructure(NewContactData(text, 75),
                                              text, li),
               layout, lines, companyResult)

\* the arbiter has not run
NoArbiter == Arbitration(NewContactData(<<>>, 0))

\* lines 53-61 of the wrapper: the record in the format of the store
Extracted(result) ==
  [name |-> result.name, title |-> result.title, company |-> result.company,
   phone |-> result.phone, email |-> result.email,
   website |-> result.website, address |-> result.address]

NoExtracted == Extracted(NewContactData(<<>>, 0))

\* the lines the texts of the local field extraction are made of
LocalLines ==
  <<<<"j", "o", "h", "n", " ", "v", "p">>, <<"A", " ", "B", "o", " ", "C", "y", " ", "D", "i", " ", "E", "d">>, <<"J", " ", "S", "m", "i", "t", "h", " ", "S", "a", "l", "e", "s", " ", "I", "n", "c">>, <<"J", " ", "S", "m", "i", "t", "h">>,
    <<"J", "o", "h", "n", " ", "S", "m", "i", "t", "h", " ", "D", "i", "r", "e", "c", "t", "o", "r", " ", "I", "n", "c">>, <<"D", "r", ".", " ", "J", "o", "h", "n", " ", "S", "m", "i", "t", "h", " ", "C", "E", "O">>, <<"j", "o", "h", "n", "@", "a", "c", "m", "e", ".", "o", "r", "g">>,
    <<"b", "i", "l", "l", "@", "g", "m", "a", "i", "l", ".", "c", "o", "m">>, <<"+", "1", " ", "5", "5", "5", " ", "1", "2", "3", " ", "4", "5", "6", "7", " ", "x", "1", "2">>, <<"R", "e", "n", "o", ",", " ", "N", "V", " ", "8", "9", "5", "0", "1">>,
    <<"1", "2", " ", "E", "l", "m", " ", "S", "t">>, <<"J", "o", " ", "D", "i", "r", "e", "c", "t", "o", "r">>, <<"J", "o", " ", "L", "e", "a", "d", " ", "J", "o", " ", "L", "e", "a", "d">>>>

\* the cards of n lines: n lines of LocalLines that follow one another, as
\* lists of indices
LocalCards(n) ==
  {[i \in 1..n |-> k + i - 1] : k \in 1..(Len(LocalLines) - n + 1)}

TextOf(card) == Join([i \in 1..Len(card) |-> LocalLines[card[i]]], "\n")

LocalTexts == {TextOf(c) : c \in UNION {LocalCards(n) : n \in 1..MaxLocalLines}}

\* the tokens of a text: its words, those of the r-th line in the rows
\* 2r-2 to 2r-1
RECURSIVE TokensOfLines(_, _)
TokensOfLines(lines, r) ==
  IF r > Len(lines) THEN <<>>
  ELSE [i \in 1..Len(WordsOf(lines[r])) |->
          [text |-> WordsOf(lines[r])[i], confidence |-> 90,
           bbox |-> [x0 |-> 10 * (i - 1), y0 |-> 2 * r - 2,
                     x1 |-> 10 * i - 1, y1 |-> 2 * r - 1]]]
       \o TokensOfLines(lines, r + 1)

TokensOf(text) == TokensOfLines(LinesOf(text), 1)

\* the data of the engine for a text: with its tokens, with an empty list of
\* tokens, and with none
DataOf(text) ==
  {[text |-> text, confidence |-> 90, hasWords |-> TRUE,
    words |-> TokensOf(text)],
   [text |-> text, confidence |-> 90, hasWords |-> TRUE, words |-> <<>>],
   [text |-> text, confidence |-> 90, hasWords |-> FALSE, words |-> <<>>]}

LocalData == UNION {DataOf(t) : t \in LocalTexts}

\* the data the repeated extractions are run on
RepeatData ==
  {d \in LocalData :
     /\ d.text \in {LocalLines[7], LocalLines[9]}
     /\ d.hasWords = (d.words # <<>>)}

\* no recognition in progress
NoOcr ==
  [pc |-> "none", data |-> NoData, ocrResult |-> NoOcrResult,
   lines |-> <<>>, layout |-> NoLayout,
   contactData |-> NewContactData(<<>>, 0), company |-> <<>>,
   arbiter |-> NoArbiter, extracted |-> NoExtracted, runs |-> <<>>]

\* worker.recognize has resolved with data
Recognized(data) == [NoOcr EXCEPT !.pc = "recognized", !.data = data]

\* ------------------------------------------- useScanWorkflow, OCRService
\* a handleImageCapture call: not running, or awaiting processImage
IdleCapture == [pc |-> "idle", image |-> Null]

NoCaptures == [h \in 1..MaxCaptures |-> IdleCapture]

\* a call of OCRService: none, or one of initialize, processImage, terminate
IdleTessCall == [pc |-> "idle", op |-> "none"]

\* OCRService as constructed, lines 69-70: no worker (0), not initialized;
\* history: workers is the number of workers createWorker has handed over
\* since the last call of terminate, issued the number of calls started
NewOcrService ==
  [worker |-> 0, isInitialized |-> FALSE, workers |-> 0, made |-> 0,
   issued |-> 0, calls |-> [c \in 1..NTessSlots |-> IdleTessCall]]

\* ------------------------------------------------------------ initial state
Configs == [forceOfflineMode : BOOLEAN, googleVisionApiKey : BOOLEAN,
            enableAnalytics : BOOLEAN, maxGoogleVisionRequests : 0..MaxRequests]

DefaultQuota(cfg) == [cfg EXCEPT !.maxGoogleVisionRequests = DefaultMaxRequests]

Envs == [svcFile : BOOLEAN, online : BOOLEAN,
         gvApi : {"ok", "httpError", "responseError"}, tessOk : BOOLEAN,
         image : {"blob", "canvas", "nullCanvas"}]

\* the constructor of HybridOcrService, for any configuration and environment
Constructed(cfg, e, limit) ==
  /\ config = cfg
  /\ gvs = <<NewGvs(cfg.googleVisionApiKey, cfg.maxGoogleVisionRequests)>>
  /\ analytics = [googleVisionCount |-> 0, tesseractCount |-> 0,
                  errors |-> <<>>, processingTimes |-> <<>>]
  /\ env = e
  /\ calls = [c \in Slots |-> IdleCall]
  /\ health = IdleHealth
  /\ started = 0
  /\ callLimit = limit
  /\ ops = 0
  /\ hist = EmptyHist

\* no handleImageCapture call in progress, the local service as constructed
HooksIdle ==
  /\ scan = NoCaptures
  /\ tess = NewOcrService

\* the workflow store as created, no probe issued, no recognition result
\* handed to the local parser, the shared regular expressions never used
LocalIdle ==
  /\ store = Created
  /\ probe = IdleProbe
  /\ ocr = NoOcr
  /\ lastIndex = FreshRegexes
  /\ HooksIdle

Init ==
  /\ \E cfg \in Configs, e \in Envs : Constructed(cfg, e, MaxCalls)
  /\ doc = NoDoc
  /\ LocalIdle

\* ------------------------------------------- HybridOcrService.processImage
\* the backend data a successful invocation hands back
BackendData(processor) ==
  IF processor = GV THEN [confidence |-> GvConfidence, fields |-> "extracted"]
  ELSE [confidence |-> LayoutConfidence, fields |-> "extracted"]

\* the local backend started together with the cloud backend
InvokeGvRaced(call) ==
  [call EXCEPT !.pc = "gvInit", !.gen = Cur,
               !.inflight = @ \cup {GV, TESS}, !.invoked = @ \o <<GV, TESS>>]

\* googleVisionService.processImage(...) is called: lines 76, 133-137
InvokeGv(call) ==
  [call EXCEPT !.pc = "gvInit", !.gen = Cur,
               !.inflight = @ \cup {GV}, !.invoked = Append(@, GV)]

\* ocrService.processImage(...) is called: lines 83 and 96
InvokeTess(call) ==
  [call EXCEPT !.pc = "tess",
               !.inflight = @ \cup {TESS}, !.invoked = Append(@, TESS)]

\* every invocation counted as a cloud invocation
CountInvocationWrongBackend(a, processor) ==
  [a EXCEPT !.googleVisionCount = @ + 1]

\* the increment of tesseractCount missing
CountInvocationDropTess(a, processor) ==
  IF processor = GV THEN [a EXCEPT !.googleVisionCount = @ + 1] ELSE a

\* this.analytics.googleVisionCount++ / this.analytics.tesseractCount++
CountInvocation(a, processor) ==
  IF processor = GV THEN [a EXCEPT !.googleVisionCount = @ + 1]
  ELSE [a EXCEPT !.tesseractCount = @ + 1]

\* the error a terminal result carries: the one the outer catch received
TerminalError(primaryError, caught) == caught

\* lines 118-136: the outer catch logs the error and returns an empty result
Terminal(c, call, caught) ==
  LET en == config.enableAnalytics
      msg == TerminalError(call.primaryError, caught)
  IN /\ analytics' = LogError(analytics, en, hist.errors + 1,
                              call.strategy.primary, msg)
     /\ hist' = [hist EXCEPT !.errors = @ + Ticks(en)]
     /\ calls' = [calls EXCEPT ![c] =
          [call EXCEPT !.pc = "done", !.gen = 0,
             !.result = [kind |-> "error", processor |-> call.strategy.primary,
                         fallbackUsed |-> "absent", error |-> msg,
                         confidence |-> 0, fields |-> "none"]]]

\* lines 79-92: the inner catch; the primary attempt has failed with error e
PrimaryFailed(c, call, e) ==
  LET failed == [call EXCEPT !.inflight = @ \ {GV}, !.primaryOutcome = "failed",
                             !.primaryError = e]
  IN IF failed.strategy.fallback = TESS
     THEN /\ calls' = [calls EXCEPT ![c] = InvokeTess(failed)]
          /\ UNCHANGED <<analytics, hist>>
     ELSE Terminal(c, failed, e)

\* lines 56-60, 151-162: a call starts; determineStrategy runs up to its first
\* await (or returns the forced-offline strategy)
Start(c) ==
  /\ calls[c].pc \in {"idle", "done"}
  /\ \A d \in Slots : d < c => calls[d].pc \notin {"idle", "done"}
  /\ started < callLimit
  /\ started' = started + 1
  /\ LET base == [IdleCall EXCEPT !.image = env.image]
     IN calls' = [calls EXCEPT ![c] =
          IF config.forceOfflineMode
          THEN [base EXCEPT !.pc = "decided", !.strategy = OfflineStrategy,
                            !.obs.offline = "yes"]
          ELSE [base EXCEPT !.pc = "probeSvc", !.obs.offline = "no"]]
  /\ hist' = [hist EXCEPT !.overlap =
                @ \/ \E d \in Slots \ {c} : calls[d].pc \notin {"idle", "done"}]
  /\ UNCHANGED <<doc, localVars, config, gvs, analytics, env, health, callLimit, ops>>

\* lines 162-172, 199-206: the HEAD request for the service account file
\* completes; the credentials rule is applied
ProbeSvc(c) ==
  /\ calls[c].pc = "probeSvc"
  /\ LET hasServiceAccount == env.svcFile
         creds == config.googleVisionApiKey \/ hasServiceAccount
         call == [calls[c] EXCEPT !.obs.creds = YesNo(creds)]
     IN calls' = [calls EXCEPT ![c] =
          IF ~creds
          THEN [call EXCEPT !.pc = "decided", !.strategy = NoCredsStrategy]
          ELSE [call EXCEPT !.pc = "probeNet"]]
  /\ UNCHANGED <<doc, localVars, config, gvs, analytics, env, health, started, callLimit,
                 ops, hist>>

\* lines 172-197, 208-230: the connectivity probe completes (or is aborted);
\* the network and quota rules are applied
ProbeNet(c) ==
  /\ calls[c].pc = "probeNet"
  /\ LET isOnline == env.online
         remaining == RemainingRequests(gvs[Cur])
         call == [calls[c] EXCEPT !.obs.net = YesNo(isOnline)]
     IN calls' = [calls EXCEPT ![c] =
          IF ~isOnline
          THEN [call EXCEPT !.pc = "decided", !.strategy = NoNetStrategy]
          ELSE IF QuotaExhausted(remaining)
          THEN [call EXCEPT !.pc = "decided", !.strategy = QuotaStrategy,
                            !.obs.quota = "probed", !.obs.remaining = Observed(remaining)]
          ELSE [call EXCEPT !.pc = "decided", !.strategy = DefaultStrategy,
                            !.obs.quota = "probed", !.obs.remaining = Observed(remaining)]]
  /\ UNCHANGED <<doc, localVars, config, gvs, analytics, env, health, started, callLimit,
                 ops, hist>>

\* lines 69-76, 94-96: the strategy is known; the primary attempt begins
Primary(c) ==
  /\ calls[c].pc = "decided"
  /\ LET call == [calls[c] EXCEPT !.obs = NoObs]
     IN calls' = [calls EXCEPT ![c] =
          IF call.strategy.primary = GV
          THEN IF call.image = "blob" THEN InvokeGv(call)
               ELSE [call EXCEPT !.pc = "toBlob"]
          ELSE InvokeTess(call)]
  /\ UNCHANGED <<doc, localVars, config, gvs, analytics, env, health, started, callLimit,
                 ops, hist>>

\* lines 73-76, 139-149: canvas.toBlob calls back
ToBlob(c) ==
  /\ calls[c].pc = "toBlob"
  /\ IF calls[c].image = "canvas"
     THEN /\ calls' = [calls EXCEPT ![c] = InvokeGv(calls[c])]
          /\ UNCHANGED <<analytics, hist>>
     ELSE PrimaryFailed(c, calls[c], ErrBlob)
  /\ UNCHANGED <<doc, localVars, config, gvs, env, health, started, callLimit, ops>>

\* GoogleVisionService.processImage lines 135-156, initializeServiceAccount
\* lines 56-74: the fetch of the service account file completes; then the
\* authentication and quota checks run on the instance the call was made on
GvInit(c) ==
  /\ calls[c].pc = "gvInit"
  /\ LET i == calls[c].gen
         g == [gvs[i] EXCEPT !.serviceAccountCredentials = @ \/ env.svcFile]
     IN /\ gvs' = [gvs EXCEPT ![i] = g]
        /\ IF ~g.apiKey /\ ~g.serviceAccountCredentials
           THEN PrimaryFailed(c, calls[c], ErrAuth)
           ELSE IF LimitReached(g)
           THEN PrimaryFailed(c, calls[c], ErrLimit)
           ELSE /\ calls' = [calls EXCEPT ![c].pc = "gvCall"]
                /\ UNCHANGED <<analytics, hist>>
  /\ UNCHANGED <<doc, localVars, config, env, health, started, callLimit, ops>>

\* GoogleVisionService.processImage lines 156-173, callVisionAPI lines
\* 197-258, parseVisionResponse lines 260-290: the API request completes
GvCall(c) ==
  /\ calls[c].pc = "gvCall"
  /\ LET i == calls[c].gen
     IN CASE env.gvApi = "httpError" ->
               /\ gvs' = gvs
               /\ PrimaryFailed(c, calls[c], ErrHttp)
          [] env.gvApi = "responseError" ->
               /\ gvs' = [gvs EXCEPT ![i].requestCount = @ + 1]
               /\ PrimaryFailed(c, calls[c], ErrResponse)
          [] env.gvApi = "ok" ->
               /\ gvs' = [gvs EXCEPT ![i].requestCount = @ + 1]
               /\ calls' = [calls EXCEPT ![c] =
                    [@ EXCEPT !.pc = "gvReturned", !.inflight = @ \ {GV},
                              !.primaryOutcome = "succeeded"]]
               /\ UNCHANGED <<analytics, hist>>
  /\ UNCHANGED <<doc, localVars, config, env, health, started, callLimit, ops>>

\* lines 101-116: a successful result is timed, logged and returned
Succeed(c, call, processor, fallbackUsed, counted) ==
  LET en == config.enableAnalytics
      logged == IF fallbackUsed
                THEN LogError(counted, en, hist.errors + 1, GV, call.primaryError)
                ELSE counted
      data == BackendData(processor)
  IN /\ analytics' = LogProcessingTime(logged, en, hist.times + 1, processor)
     /\ hist' = [hist EXCEPT !.okReturns = @ + 1, !.times = @ + Ticks(en),
                   !.errors = @ + (IF fallbackUsed THEN Ticks(en) ELSE 0)]
     /\ calls' = [calls EXCEPT ![c] =
          [call EXCEPT !.pc = "done", !.gen = 0,
             !.result = [kind |-> "ok", processor |-> processor,
                         fallbackUsed |-> fallbackUsed, error |-> NoError,
                         confidence |-> data.confidence, fields |-> data.fields]]]

\* lines 76-78, 101-116: processImage resumes after the cloud backend returned
GvReturned(c) ==
  /\ calls[c].pc = "gvReturned"
  /\ Succeed(c, calls[c], GV, FALSE, CountInvocation(analytics, GV))
  /\ UNCHANGED <<doc, localVars, config, gvs, env, health, started, callLimit, ops>>

\* fallbackUsed never set
IsFallbackNever(call) == FALSE

\* lines 79-85: tesseract runs as the fallback inside the catch of the
\* google-vision branch, where fallbackUsed is set
IsFallback(call) == call.strategy.primary = GV

\* lines 83-89, 96-98, 101-136: the local backend returns or throws
Tess(c) ==
  /\ calls[c].pc = "tess"
  /\ LET outcome == IF env.tessOk THEN "succeeded" ELSE "failed"
         call == IF calls[c].primaryOutcome = "none"
                 THEN [calls[c] EXCEPT !.inflight = @ \ {TESS},
                         !.primaryOutcome = outcome,
                         !.primaryError = IF env.tessOk THEN NoError ELSE ErrOcr]
                 ELSE [calls[c] EXCEPT !.inflight = @ \ {TESS},
                         !.fallbackOutcome = outcome]
     IN IF env.tessOk
        THEN Succeed(c, call, TESS, IsFallback(call),
                     CountInvocation(analytics, TESS))
        ELSE Terminal(c, call, ErrOcr)
  /\ UNCHANGED <<doc, localVars, config, gvs, env, health, started, callLimit, ops>>

ProcessImage(c) ==
  \/ Start(c) \/ ProbeSvc(c) \/ ProbeNet(c) \/ Primary(c) \/ ToBlob(c)
  \/ GvInit(c) \/ GvCall(c) \/ GvReturned(c) \/ Tess(c)

\* ------------------------------------------------- configuration methods
\* one more operation other than processImage (bounded by MaxOps)
Counted == /\ ops < MaxOps
           /\ ops' = ops + 1

Noted(op) == hist' = [hist EXCEPT !.lastOp = op]

\* setOfflineMode, lines 344-347
SetOfflineMode(enabled) ==
  /\ Counted
  /\ config' = [config EXCEPT !.forceOfflineMode = enabled]
  /\ Noted("setOfflineMode")
  /\ UNCHANGED <<doc, localVars, gvs, analytics, env, calls, health, started, callLimit>>

\* the analytics object created afresh together with the cloud service
AnalyticsAfterReconfigureCleared(a) ==
  [googleVisionCount |-> 0, tesseractCount |-> 0, errors |-> <<>>,
   processingTimes |-> <<>>]

\* the analytics after setGoogleVisionApiKey / setGoogleVisionConfig
AnalyticsAfterReconfigure(a) == a

\* setGoogleVisionApiKey, lines 325-331; apiKey is FALSE for the empty string
SetGoogleVisionApiKey(apiKey) ==
  /\ Counted
  /\ config' = [config EXCEPT !.googleVisionApiKey = apiKey]
  /\ gvs' = Append(gvs, NewGvs(apiKey, config.maxGoogleVisionRequests))
  /\ analytics' = AnalyticsAfterReconfigure(analytics)
  /\ Noted("setGoogleVisionApiKey")
  /\ UNCHANGED <<doc, localVars, env, calls, health, started, callLimit>>

\* setGoogleVisionConfig, lines 333-342; maxRequests 0 stands for an absent
\* (or zero, hence falsy) maxRequests
SetGoogleVisionConfig(serviceAccountPath, apiKey, maxRequests) ==
  /\ serviceAccountPath \/ apiKey
  /\ Counted
  /\ IF serviceAccountPath
     THEN /\ gvs' = Append(gvs, NewGvs(FALSE,
                      IF maxRequests # 0 THEN maxRequests
                      ELSE config.maxGoogleVisionRequests))
          /\ config' = config
     ELSE /\ config' = [config EXCEPT !.googleVisionApiKey = apiKey]
          /\ gvs' = Append(gvs, NewGvs(apiKey, config.maxGoogleVisionRequests))
  /\ analytics' = AnalyticsAfterReconfigure(analytics)
  /\ Noted("setGoogleVisionConfig")
  /\ UNCHANGED <<doc, localVars, env, calls, health, started, callLimit>>

\* resetUsageCounters, lines 349-355, and resetUsageCount, lines 538-541
ResetUsageCounters ==
  /\ Counted
  /\ analytics' = [googleVisionCount |-> 0, tesseractCount |-> 0,
                   errors |-> <<>>, processingTimes |-> <<>>]
  /\ gvs' = [gvs EXCEPT ![Cur].requestCount = 0]
  /\ hist' = [hist EXCEPT !.errors = 0, !.times = 0, !.okReturns = 0,
                           !.lastOp = "resetUsageCounters"]
  /\ UNCHANGED <<doc, localVars, config, env, calls, health, started, callLimit>>

\* getAnalytics, lines 264-285, calls generateRecommendations, lines 296-321,
\* which calls getAnalytics again: the recursion never ends and the call
\* throws a RangeError without having changed anything
GetAnalytics ==
  /\ Counted
  /\ Noted("getAnalytics")
  /\ UNCHANGED <<doc, localVars, config, gvs, analytics, env, calls, health, started,
                 callLimit>>

\* ------------------------------------------------------------ healthCheck
\* line 363: the connectivity probe is issued
HealthStart ==
  /\ health.pc \in {"idle", "done"}
  /\ Counted
  /\ health' = [IdleHealth EXCEPT !.pc = "probeNet"]
  /\ Noted("healthCheck")
  /\ UNCHANGED <<doc, localVars, config, gvs, analytics, env, calls, started, callLimit>>

\* lines 363-368: the connectivity probe completes; the HEAD request for the
\* service account file is issued
HealthNet ==
  /\ health.pc = "probeNet"
  /\ health' = [health EXCEPT !.pc = "probeSvc", !.network = env.online,
                               !.obs.net = YesNo(env.online)]
  /\ UNCHANGED <<doc, localVars, config, gvs, analytics, env, calls, started, callLimit,
                 ops, hist>>

\* lines 365-380: what healthCheck reports for the cloud backend
HealthVerdict(offline, apiKey, hasServiceAccount, network, remaining) ==
  IF ~apiKey /\ ~hasServiceAccount
  THEN [available |-> FALSE, reason |-> "No API key or service account configured"]
  ELSE IF ~network
  THEN [available |-> FALSE, reason |-> "Network unavailable"]
  ELSE IF QuotaExhausted(remaining)
  THEN [available |-> FALSE, reason |-> "Monthly limit reached"]
  ELSE [available |-> TRUE, reason |-> ""]

\* lines 368-394: the HEAD request completes; the result is assembled
HealthSvc ==
  /\ health.pc = "probeSvc"
  /\ LET remaining == RemainingRequests(gvs[Cur])
         v == HealthVerdict(config.forceOfflineMode, config.googleVisionApiKey,
                            env.svcFile, health.network, remaining)
     IN health' = [health EXCEPT !.pc = "done", !.available = v.available,
                     !.reason = v.reason,
                     !.obs.offline = YesNo(config.forceOfflineMode),
                     !.obs.creds = YesNo(config.googleVisionApiKey \/ env.svcFile),
                     !.obs.quota = "probed", !.obs.remaining = Observed(remaining)]
  /\ UNCHANGED <<doc, localVars, config, gvs, analytics, env, calls, started, callLimit,
                 ops, hist>>

HealthCheck == HealthStart \/ HealthNet \/ HealthSvc

\* ------------------------------------------------------------ environment
\* the network, the service account file, the backends or the kind of image
\* the caller passes change
EnvChange ==
  /\ Counted
  /\ \E e \in Envs :
       /\ e # env
       /\ Cardinality({f \in DOMAIN env : e[f] # env[f]}) = 1
       /\ env' = e
  /\ Noted("envChange")
  /\ UNCHANGED <<doc, localVars, config, gvs, analytics, calls, health, started, callLimit>>

Reconfigure ==
  \/ \E b \in BOOLEAN : SetOfflineMode(b)
  \/ \E k \in BOOLEAN : SetGoogleVisionApiKey(k)
  \/ \E p, k \in BOOLEAN, m \in {0, 1} : SetGoogleVisionConfig(p, k, m)

\* One processImage call at a time (in slot 1), its steps interleaved at
\* every await point with the configuration methods, resetUsageCounters,
\* getAnalytics, healthCheck and changes of the environment.
Next ==
  \/ ProcessImage(1)
  \/ Reconfigure
  \/ ResetUsageCounters
  \/ GetAnalytics
  \/ HealthCheck
  \/ EnvChange

Spec == Init /\ [][Next]_vars

\* processImage calls only, up to NSlots of them in progress at once, for
\* every configuration and environment
NextCalls == \E c \in Slots : ProcessImage(c)

SpecCalls == Init /\ [][NextCalls]_vars

\* concurrent processImage calls, enough of them to fill both logs:
\* analytics enabled, an API key configured, the default quota, the network
\* up, and every behaviour of the two backends and of the canvas conversion
LogConfigs == {DefaultQuota(cfg) : cfg \in
                 {k \in Configs : k.enableAnalytics /\ k.googleVisionApiKey}}

LogEnvs == {e \in Envs : e.online /\ ~e.svcFile}

InitLog ==
  /\ \E cfg \in LogConfigs, e \in LogEnvs : Constructed(cfg, e, LogCalls)
  /\ doc = NoDoc
  /\ LocalIdle

SpecLog == InitLog /\ [][NextCalls]_vars

\* ------------------------------- GoogleVisionService.parseVisionResponse
\* lines 271-274: no text was detected, the empty record is returned
NoTextDetected ==
  /\ doc.pc = "received"
  /\ doc.text = <<>>
  /\ doc' = [doc EXCEPT !.pc = "returned"]
  /\ UNCHANGED <<orchVars, localVars>>

\* extractFieldsFromText, lines 292-307
ExtractFieldsFromText ==
  /\ doc.pc = "received"
  /\ doc.text # <<>>
  /\ doc' = [doc EXCEPT !.pc = "email", !.lines = LinesOf(doc.text),
                        !.contact = WithEmail(doc.contact, doc.text)]
  /\ UNCHANGED <<orchVars, localVars>>

\* line 327
DetectNameFromStructuredText ==
  /\ doc.pc = "email"
  /\ doc' = [doc EXCEPT !.pc = "name",
                        !.contact = DetectName(doc.contact, doc.lines)]
  /\ UNCHANGED <<orchVars, localVars>>

\* line 330
DetectCompanyFromStructuredText ==
  /\ doc.pc = "name"
  /\ doc' = [doc EXCEPT !.pc = "company",
                        !.contact = DetectCompany(doc.contact, doc.lines)]
  /\ UNCHANGED <<orchVars, localVars>>

\* line 333
DetectTitleFromStructuredText ==
  /\ doc.pc = "company"
  /\ doc' = [doc EXCEPT !.pc = "title",
                        !.contact = DetectTitle(doc.contact, doc.lines)]
  /\ UNCHANGED <<orchVars, localVars>>

\* lines 285-289; HybridOcrService.processImage hands the record on as it
\* is (hybridOcrService.ts lines 110-116)
ReturnContact ==
  /\ doc.pc = "title"
  /\ doc' = [doc EXCEPT !.pc = "returned"]
  /\ UNCHANGED <<orchVars, localVars>>

\* the orchestrator as constructed with an API key, the cloud backend
\* answering
CloudConfig ==
  [forceOfflineMode |-> FALSE, googleVisionApiKey |-> TRUE,
   enableAnalytics |-> TRUE, maxGoogleVisionRequests |-> DefaultMaxRequests]

CloudEnv ==
  [svcFile |-> FALSE, online |-> TRUE, gvApi |-> "ok", tessOk |-> TRUE,
   image |-> "blob"]

InitCloud ==
  /\ Constructed(CloudConfig, CloudEnv, 0)
  /\ \E text \in Texts : doc = Received(text)
  /\ LocalIdle

NextCloud ==
  \/ NoTextDetected
  \/ ExtractFieldsFromText
  \/ DetectNameFromStructuredText
  \/ DetectCompanyFromStructuredText
  \/ DetectTitleFromStructuredText
  \/ ReturnContact

SpecCloud == InitCloud /\ [][NextCloud]_vars

\* ------------------------------------------------- the scan workflow store
\* every action of the store is one synchronous set(...)
StoreFrame == UNCHANGED <<orchVars, doc, probe, ocr, lastIndex, scan, tess>>

SetStep ==
  /\ \E step \in ScanWorkflowSteps :
       store' = Applied("setStep", store.state,
                        [store.state EXCEPT !.currentStep = step,
                                            !.error = Null])
  /\ StoreFrame

SetCapturedImage ==
  /\ \E image \in Images :
       store' = Applied("setCapturedImage", store.state,
                        [store.state EXCEPT !.capturedImage = image,
                                            !.currentStep = "processing",
                                            !.isProcessing = TRUE,
                                            !.error = Null])
  /\ StoreFrame

SetExtractedData ==
  /\ \E data \in Extractions :
       store' = Applied("setExtractedData", store.state,
                        [store.state EXCEPT !.extractedData = data,
                                            !.currentStep = "results",
                                            !.isProcessing = FALSE,
                                            !.error = Null])
  /\ StoreFrame

\* lines 78-84: the state setError(error) sets
SetErrorState(s, error) ==
  [s EXCEPT !.error = error,
            !.currentStep = IF Truthy(error) THEN "error" ELSE s.currentStep,
            !.isProcessing = FALSE]

SetError ==
  /\ \E error \in ErrorArgs :
       store' = [Applied("setError", store.state,
                         SetErrorState(store.state, error))
                   EXCEPT !.last.arg = error]
  /\ StoreFrame

SetProcessing ==
  /\ \E processing \in BOOLEAN :
       store' = Applied("setProcessing", store.state,
                        [store.state EXCEPT !.isProcessing = processing])
  /\ StoreFrame

ResetWorkflow ==
  /\ store' = Applied("resetWorkflow", store.state, initialState)
  /\ StoreFrame

NextStep ==
  /\ store' = Applied("nextStep", store.state, NextStepState(store.state))
  /\ StoreFrame

PreviousStep ==
  /\ store' = Applied("previousStep", store.state,
                      PreviousStepState(store.state))
  /\ StoreFrame

NextStore ==
  \/ SetStep
  \/ SetCapturedImage
  \/ SetExtractedData
  \/ SetError
  \/ SetProcessing
  \/ ResetWorkflow
  \/ NextStep
  \/ PreviousStep

\* the workflow store driven by the components, the orchestrator idle
InitIdle ==
  /\ Constructed(CloudConfig, CloudEnv, 0)
  /\ doc = NoDoc
  /\ LocalIdle

SpecStore == InitIdle /\ [][NextStore]_vars

\* ------------------------------------- the requests of determineStrategy
\* determineStrategy with its two HEAD requests as the browser carries them
\* out: a request is pending until the server answers, the transfer fails or
\* the request is aborted; a server need not answer at all.
ProbeFrame == UNCHANGED <<orchVars, doc, store, ocr, lastIndex, scan, tess>>

Decided(strategy) ==
  [probe EXCEPT !.pc = "decided", !.request = "none", !.strategy = strategy]

\* lines 181-196: the quota rule and the default
AfterNetwork ==
  IF QuotaExhausted(RemainingRequests(gvs[Cur])) THEN Decided(QuotaStrategy)
  ELSE Decided(DefaultStrategy)

\* lines 208-222: checkNetworkConnectivity up to its await; navigator.onLine
\* is onLine
CheckNetworkConnectivity(hasServiceAccount, onLine) ==
  IF ~onLine
  THEN [Decided(NoNetStrategy) EXCEPT
          !.hasServiceAccount = hasServiceAccount]
  ELSE [probe EXCEPT !.pc = "net", !.request = "pending",
                     !.timer = "armed",
                     !.hasServiceAccount = hasServiceAccount]

\* lines 162-172: the service-account probe has returned hasServiceAccount
AfterServiceAccount(hasServiceAccount, onLine) ==
  IF ~config.googleVisionApiKey /\ ~hasServiceAccount
  THEN [Decided(NoCredsStrategy) EXCEPT
          !.hasServiceAccount = hasServiceAccount]
  ELSE CheckNetworkConnectivity(hasServiceAccount, onLine)

\* lines 151-162, 199-201: determineStrategy is entered; unless offline mode
\* is forced it issues the HEAD request for the service-account file, with
\* no signal and no timer
DetermineStrategy ==
  /\ probe.pc = "idle"
  /\ probe.selections < MaxSelections
  /\ LET entered == [probe EXCEPT !.selections = @ + 1]
     IN  probe' = IF config.forceOfflineMode
                  THEN [entered EXCEPT !.pc = "decided",
                                       !.strategy = OfflineStrategy]
                  ELSE [entered EXCEPT !.pc = "svc", !.request = "pending"]
  /\ ProbeFrame

\* lines 201-202: the server answers the service-account request
ServiceAccountResponds ==
  /\ probe.pc = "svc"
  /\ probe.request = "pending"
  /\ \E ok \in BOOLEAN, onLine \in BOOLEAN :
       probe' = AfterServiceAccount(ok, onLine)
  /\ ProbeFrame

\* lines 203-205: the service-account request fails
ServiceAccountFails ==
  /\ probe.pc = "svc"
  /\ probe.request = "pending"
  /\ \E onLine \in BOOLEAN :
       probe' = [AfterServiceAccount(FALSE, onLine) EXCEPT
                   !.caught = FetchError]
  /\ ProbeFrame

\* lines 218-225, 172-196: the server answers the connectivity request; the
\* timer is cleared
ConnectivityResponds ==
  /\ probe.pc = "net"
  /\ probe.request = "pending"
  /\ \E ok \in BOOLEAN :
       probe' = [(IF ok THEN AfterNetwork ELSE Decided(NoNetStrategy))
                   EXCEPT !.timer = "none", !.isOnline = ok]
  /\ ProbeFrame

\* lines 226-229, 173-179: the connectivity request fails; the timer stays
\* armed
ConnectivityFails ==
  /\ probe.pc = "net"
  /\ probe.request = "pending"
  /\ probe' = [Decided(NoNetStrategy) EXCEPT !.isOnline = FALSE,
                                             !.caught = FetchError]
  /\ ProbeFrame

\* line 216: networkTimeout has passed and the timer calls controller.abort();
\* a pending connectivity request is rejected and caught at lines 226-229
Timeout ==
  /\ probe.timer = "armed"
  /\ probe' = IF probe.request = "pending"
              THEN [Decided(NoNetStrategy) EXCEPT !.timer = "none",
                                                  !.isOnline = FALSE,
                                                  !.caught = AbortError]
              ELSE [probe EXCEPT !.timer = "none"]
  /\ ProbeFrame

\* line 60: processImage takes the strategy; a later call selects again.  A
\* timer left armed by a failed request aborts a settled request, which has
\* no effect, and is not tracked further.
TakeStrategy ==
  /\ probe.pc = "decided"
  /\ probe' = [IdleProbe EXCEPT !.selections = probe.selections]
  /\ ProbeFrame

NextProbe ==
  \/ DetermineStrategy
  \/ ServiceAccountResponds
  \/ ServiceAccountFails
  \/ ConnectivityResponds
  \/ ConnectivityFails
  \/ Timeout
  \/ TakeStrategy

\* the orchestrator as constructed with any configuration
InitProbe ==
  /\ \E cfg \in Configs : Constructed(cfg, CloudEnv, 0)
  /\ doc = NoDoc
  /\ LocalIdle

\* The event loop runs every step of the code that is ready and fires every
\* armed timer; nothing obliges a server to answer a request.
SpecProbe ==
  /\ InitProbe
  /\ [][NextProbe]_vars
  /\ WF_vars(DetermineStrategy)
  /\ WF_vars(Timeout)
  /\ WF_vars(TakeStrategy)

\* ------------------------------------------------ OCRService.processImage
LocalFrame == UNCHANGED <<orchVars, doc, store, probe, lastIndex, scan, tess>>

\* lines 110-127, 134-138: the recognition result is built from the data of
\* the engine, a missing word list becoming the empty list, and
\* parseContactDataWithLayout is entered
TesseractRecognized ==
  /\ ocr.pc = "recognized"
  /\ ocr' = [ocr EXCEPT
               !.pc = "received",
               !.ocrResult =
                  [text |-> ocr.data.text, confidence |-> ocr.data.confidence,
                   words |-> IF ocr.data.hasWords THEN ocr.data.words
                             ELSE <<>>],
               !.lines = LinesOf(ocr.data.text)]
  /\ LocalFrame

\* lines 142, 156-225: analyzeCardLayout returns the layout
AnalyzeCardLayout ==
  /\ ocr.pc = "received"
  /\ ocr.ocrResult.words # <<>>
  /\ ocr' = [ocr EXCEPT !.pc = "layout",
                        !.layout = LayoutAnalysis(ocr.ocrResult.words)]
  /\ LocalFrame

\* lines 128-131: an error that leaves parseContactDataWithLayout is thrown
\* on by processImage, which fails
Rethrown(recognition) == [recognition EXCEPT !.pc = "failed"]

\* lines 150-152: the error is caught and parseContactDataBasic is entered
Recovered(recognition) == [recognition EXCEPT !.pc = "basic"]

\* lines 159-161, 150-152: analyzeCardLayout throws for want of words
LayoutUnavailable ==
  /\ ocr.pc = "received"
  /\ ocr.ocrResult.words = <<>>
  /\ ocr' = Recovered(ocr)
  /\ LocalFrame

NextLayout ==
  \/ TesseractRecognized
  \/ AnalyzeCardLayout
  \/ LayoutUnavailable

\* the data of the engine for the layout analysis: one line of text with
\* every list of tokens, or none
LayoutData ==
  [text : {<<"A", "l", " ", "B", "o">>}, confidence : {90},
   hasWords : {TRUE}, words : WordLists(MaxWords)]
  \cup {[text |-> <<"A", "l", " ", "B", "o">>, confidence |-> 90,
          hasWords |-> FALSE, words |-> <<>>]}

InitLayout ==
  /\ Constructed(CloudConfig, CloudEnv, 0)
  /\ doc = NoDoc
  /\ store = Created
  /\ probe = IdleProbe
  /\ lastIndex = FreshRegexes
  /\ HooksIdle
  /\ \E data \in LayoutData : ocr = Recognized(data)

SpecLayout == InitLayout /\ [][NextLayout]_vars

\* CompanyParser.extractCompany is a function of its arguments: a text gets
\* the result it got in the runs before
SameAsBefore(companyResult) ==
  \A k \in 1..Len(ocr.runs) :
    ocr.runs[k].data.text = ocr.data.text =>
      ocr.runs[k].company = companyResult

\* lines 145-148, 295-315: detectFieldsWithLayout returns the record, which
\* processImage returns
LayoutReturned(companyResult, returned) ==
  /\ SameAsBefore(companyResult)
  /\ ocr' = [ocr EXCEPT !.pc = "done",
                        !.company = companyResult,
                        !.contactData = returned.contactData,
                        !.arbiter = returned.arbiter]
  /\ lastIndex' = returned.lastIndex

DetectFieldsWithLayout ==
  /\ ocr.pc = "layout"
  /\ \E companyResult \in CompanyResults(ocr.ocrResult.text) :
       LayoutReturned(companyResult,
                      DetectFieldsWithLayoutOf(
                        ocr.layout, ocr.lines, ocr.ocrResult.text, lastIndex,
                        companyResult))
  /\ UNCHANGED <<orchVars, doc, store, probe, scan, tess>>

\* lines 152, 543-640: parseContactDataBasic returns the record, which
\* processImage returns
BasicReturned(companyResult, returned) ==
  /\ SameAsBefore(companyResult)
  /\ ocr' = [ocr EXCEPT !.pc = "done",
                        !.company = companyResult,
                        !.contactData = returned.contactData]
  /\ lastIndex' = returned.lastIndex

ParseContactDataBasic ==
  /\ ocr.pc = "basic"
  /\ \E companyResult \in CompanyResults(ocr.ocrResult.text) :
       BasicReturned(companyResult,
                     ParseContactDataBasicOf(ocr.ocrResult, lastIndex,
                                             companyResult))
  /\ UNCHANGED <<orchVars, doc, store, probe, scan, tess>>

\* ocrServiceWrapper.processImage, lines 50-61: the record of the service is
\* converted to the format of the store
Convert ==
  /\ ocr.pc = "done"
  /\ ocr' = [ocr EXCEPT !.pc = "converted",
                        !.extracted = Extracted(ocr.contactData)]
  /\ LocalFrame

\* processImage is called again and the engine answers with data
Recognize ==
  /\ ocr.pc = "done"
  /\ Len(ocr.runs) + 1 < MaxRuns
  /\ \E data \in RepeatData :
       ocr' = [Recognized(data) EXCEPT
                 !.runs = Append(ocr.runs,
                                 [data |-> ocr.data, company |-> ocr.company,
                                  record |-> ocr.contactData])]
  /\ LocalFrame

NextLocal ==
  \/ TesseractRecognized
  \/ AnalyzeCardLayout
  \/ LayoutUnavailable
  \/ DetectFieldsWithLayout
  \/ ParseContactDataBasic
  \/ Convert

InitLocal ==
  /\ Constructed(CloudConfig, CloudEnv, 0)
  /\ doc = NoDoc
  /\ store = Created
  /\ probe = IdleProbe
  /\ lastIndex = FreshRegexes
  /\ HooksIdle
  /\ \E data \in LocalData : ocr = Recognized(data)

SpecLocal == InitLocal /\ [][NextLocal]_vars

NextRepeat ==
  \/ TesseractRecognized
  \/ AnalyzeCardLayout
  \/ LayoutUnavailable
  \/ DetectFieldsWithLayout
  \/ ParseContactDataBasic
  \/ Recognize

InitRepeat ==
  /\ Constructed(CloudConfig, CloudEnv, 0)
  /\ doc = NoDoc
  /\ store = Created
  /\ probe = IdleProbe
  /\ lastIndex = FreshRegexes
  /\ HooksIdle
  /\ \E data \in RepeatData : ocr = Recognized(data)

SpecRepeat == InitRepeat /\ [][NextRepeat]_vars

\* --------------------------------------------------------- useScanWorkflow
\* the states the other store actions set, part_010 lines 56-75 and 86-88
SetStepState(s, step) == [s EXCEPT !.currentStep = step, !.error = Null]

SetCapturedImageState(s, image) ==
  [s EXCEPT !.capturedImage = image, !.currentStep = "processing",
            !.isProcessing = TRUE, !.error = Null]

SetExtractedDataState(s, data) ==
  [s EXCEPT !.extractedData = data, !.currentStep = "results",
            !.isProcessing = FALSE, !.error = Null]

SetProcessingState(s, processing) == [s EXCEPT !.isProcessing = processing]

\* what ocrServiceWrapper.processImage settles with: it rejects with an Error
\* (ocrServiceWrapper lines 82-85), or resolves with the data and the
\* confidence of the backend
ScanOutcomes ==
  {[kind |-> "rejected", message |-> "OCR processing failed: Error",
    confidence |-> 0, data |-> Null]} \cup
  {[kind |-> "resolved", message |-> Null, confidence |-> c, data |-> d] :
     c \in {0, MinConfidence - 1, MinConfidence, 100}, d \in Extractions}

\* line 38, the message of the Error thrown for a low confidence (the number
\* in it left out)
LowConfidenceMessage == "Low OCR confidence. Please try with a clearer image."

\* lines 33-39: the Error the try block ends with, Null if it runs through
ThrownIn(outcome) ==
  IF outcome.kind = "rejected" THEN outcome.message
  ELSE IF outcome.confidence < MinConfidence THEN LowConfidenceMessage
  ELSE Null

\* lines 62-65: the catch block, setError and then setStep
Caught(s, errorMessage) ==
  SetStepState(SetErrorState(s, errorMessage), "error")

\* lines 50-61: the rest of the try block
Stored(s, data) == SetStepState(SetExtractedDataState(s, data), "results")

\* lines 66-68: the finally block
Finally(s) == SetProcessingState(s, FALSE)

ScanFrame == UNCHANGED <<orchVars, doc, probe, ocr, lastIndex, tess>>

\* lines 22-24
StartScanning ==
  /\ store' = Applied("startScanning", store.state,
                      SetStepState(store.state, "capturing"))
  /\ UNCHANGED scan
  /\ ScanFrame

\* lines 26-33: handleImageCapture up to its await
HandleImageCapture(h) ==
  /\ scan[h].pc = "idle"
  /\ \E image \in Images :
       /\ store' = Applied("handleImageCapture", store.state,
                      SetStepState(
                        SetProcessingState(
                          SetCapturedImageState(store.state, image), TRUE),
                        "processing"))
       /\ scan' = [scan EXCEPT ![h] = [pc |-> "awaiting", image |-> image]]
  /\ ScanFrame

\* lines 33-68: processImage has settled; the rest of the try block or the
\* catch block runs, then the finally block
CaptureSettledWith(h, outcome, thrown) ==
  /\ store' = IF thrown = Null
              THEN Applied("captureStored", store.state,
                           Finally(Stored(store.state, outcome.data)))
              ELSE [Applied("captureFailed", store.state,
                            Finally(Caught(store.state, thrown)))
                      EXCEPT !.last.arg = thrown]
  /\ scan' = [scan EXCEPT ![h] = IdleCapture]

CaptureSettled(h) ==
  /\ scan[h].pc = "awaiting"
  /\ \E outcome \in ScanOutcomes :
       CaptureSettledWith(h, outcome, ThrownIn(outcome))
  /\ ScanFrame

\* lines 75-78
RetryScanning ==
  /\ store' = Applied("retryScanning", store.state,
                      SetStepState(SetErrorState(store.state, Null),
                                   "capturing"))
  /\ UNCHANGED scan
  /\ ScanFrame

\* the component resets the workflow; calls in progress are not told
ResetScan ==
  /\ store' = Applied("resetWorkflow", store.state, initialState)
  /\ UNCHANGED scan
  /\ ScanFrame

NextScan ==
  \/ StartScanning
  \/ \E h \in 1..MaxCaptures : HandleImageCapture(h)
  \/ \E h \in 1..MaxCaptures : CaptureSettled(h)
  \/ RetryScanning
  \/ ResetScan

\* the workflow store driven through the hook
SpecScan == InitIdle /\ [][NextScan]_vars

\* -------------------------------------------------------------- OCRService
TessSlots == 1..NTessSlots

TessFrame == UNCHANGED <<orchVars, doc, store, probe, ocr, lastIndex, scan>>

\* the call in slot c moves to pc
TessAt(c, pc) == [tess EXCEPT !.calls[c].pc = pc]

\* lines 72-77: initialize returns at once when initialized, else it calls
\* createWorker
InitializeFrom(t, c) ==
  IF t.isInitialized THEN [t EXCEPT !.calls[c].pc = "initialized"]
  ELSE [t EXCEPT !.calls[c].pc = "creating"]

\* a call of initialize, processImage or terminate begins
Issued(c, op) ==
  [tess EXCEPT !.issued = @ + 1, !.calls[c] = [pc |-> "called", op |-> op]]

\* lines 72-77: initialize is called
Initialize(c) ==
  /\ tess.calls[c].pc = "idle"
  /\ tess.issued < MaxTessCalls
  /\ tess' = InitializeFrom(Issued(c, "initialize"), c)
  /\ TessFrame

\* lines 93-96: processImage is called
TessProcessImage(c) ==
  /\ tess.calls[c].pc = "idle"
  /\ tess.issued < MaxTessCalls
  /\ tess' = IF tess.worker = 0 \/ ~tess.isInitialized
             THEN InitializeFrom(Issued(c, "processImage"), c)
             ELSE [Issued(c, "processImage") EXCEPT !.calls[c].pc = "initialized"]
  /\ TessFrame

\* line 77: createWorker resolves with a new worker, or rejects
WorkerCreated(c) ==
  /\ tess.calls[c].pc = "creating"
  /\ \/ tess' = [tess EXCEPT !.made = @ + 1, !.workers = @ + 1,
                             !.worker = tess.made + 1,
                             !.calls[c].pc = "setting"]
     \/ tess' = TessAt(c, "failed")
  /\ TessFrame

\* lines 79-86: setParameters resolves, or rejects
ParametersSet(c) ==
  /\ tess.calls[c].pc = "setting"
  /\ \/ tess' = [tess EXCEPT !.isInitialized = TRUE,
                             !.calls[c].pc = "initialized"]
     \/ tess' = TessAt(c, "failed")
  /\ TessFrame

\* initialize has returned or thrown: the call of initialize is over, the
\* call of processImage goes on to recognize (lines 98-110) or throws
Initialized(c) ==
  /\ tess.calls[c].pc \in {"initialized", "failed"}
  /\ tess' = IF /\ tess.calls[c].op = "processImage"
                /\ tess.calls[c].pc = "initialized"
                /\ tess.worker # 0
             THEN TessAt(c, "recognizing")
             ELSE [tess EXCEPT !.calls[c] = IdleTessCall]
  /\ TessFrame

\* lines 110-127, 129-132: recognize resolves or rejects, or the timeout wins
RecognizeSettled(c) ==
  /\ tess.calls[c].pc = "recognizing"
  /\ tess' = [tess EXCEPT !.calls[c] = IdleTessCall]
  /\ TessFrame

\* lines 708-710: terminate is called; without a worker it returns at once
Terminate(c) ==
  /\ tess.calls[c].pc = "idle"
  /\ tess.issued < MaxTessCalls
  /\ tess' = IF tess.worker # 0
             THEN [Issued(c, "terminate") EXCEPT !.workers = 0,
                                                 !.calls[c].pc = "terminating"]
             ELSE [tess EXCEPT !.issued = @ + 1, !.workers = 0]
  /\ TessFrame

\* lines 710-713: worker.terminate has resolved
Terminated(c) ==
  /\ tess.calls[c].pc = "terminating"
  /\ tess' = [tess EXCEPT !.worker = 0, !.isInitialized = FALSE,
                          !.calls[c] = IdleTessCall]
  /\ TessFrame

NextWorker ==
  \E c \in TessSlots :
    \/ Initialize(c)
    \/ TessProcessImage(c)
    \/ WorkerCreated(c)
    \/ ParametersSet(c)
    \/ Initialized(c)
    \/ RecognizeSettled(c)
    \/ Terminate(c)
    \/ Terminated(c)

\* the calls of the local service, up to NTessSlots of them in progress
SpecWorker == InitIdle /\ [][NextWorker]_vars

\* ===================================================================
\* Properties
\* ===================================================================

\* the strategy of the first rule that matches the observations o, in the
\* order forced-offline, missing credentials, network unreachable, quota
FirstMatchingRule(o) ==
  IF o.offline = "yes" THEN OfflineStrategy
  ELSE IF o.creds = "no" THEN NoCredsStrategy
  ELSE IF o.net = "no" THEN NoNetStrategy
  ELSE IF o.remaining <= 0 THEN QuotaStrategy
  ELSE DefaultStrategy

AllPassed(o) ==
  /\ o.offline = "no" /\ o.creds = "yes" /\ o.net = "yes"
  /\ o.quota = "probed" /\ o.remaining > 0

\* C1: whatever forceOfflineMode, the credentials, the network and the
\* remaining quota are, determineStrategy returns the strategy of the first
\* matching rule (forced-offline, missing credentials, network unreachable,
\* remaining quota <= 0, default); only the default rule yields google-vision
\* with fallback tesseract, every other rule yields tesseract without fallback.
C1_StrategyPrecedence ==
  \A c \in Slots : calls[c].pc = "decided" =>
    LET o == calls[c].obs
        s == calls[c].strategy
    IN /\ s = FirstMatchingRule(o)
       /\ (s.primary = GV) <=> AllPassed(o)
       /\ s.primary = GV => s.fallback = TESS
       /\ s.primary # GV => s.primary = TESS /\ s.fallback = NONE

\* a call whose strategy was decided by the quota rule, all earlier rules
\* having passed
C1_Witness ==
  \E c \in Slots :
    /\ calls[c].pc = "decided"
    /\ calls[c].strategy = QuotaStrategy
    /\ calls[c].obs.net = "yes" /\ calls[c].obs.remaining <= 0

\* C2: when the strategy is google-vision with fallback tesseract and the
\* primary attempt fails with any error, processImage then invokes tesseract;
\* if tesseract succeeds the result has fallbackUsed = true and processor =
\* tesseract.
C2_FallbackAfterFailure ==
  \A c \in Slots :
    LET call == calls[c]
    IN (call.strategy = DefaultStrategy /\ call.primaryOutcome = "failed") =>
         /\ call.pc \in {"tess", "done"}
         /\ Len(call.invoked) > 0 /\ call.invoked[Len(call.invoked)] = TESS
         /\ call.pc = "tess" => TESS \in call.inflight
         /\ (call.pc = "done" /\ call.fallbackOutcome = "succeeded") =>
              /\ call.result.kind = "ok"
              /\ call.result.fallbackUsed = TRUE
              /\ call.result.processor = TESS

\* the cloud backend was invoked and failed, the fallback succeeded
C2_Witness ==
  \E c \in Slots :
    /\ calls[c].pc = "done"
    /\ calls[c].invoked = <<GV, TESS>>
    /\ calls[c].primaryError = ErrLimit
    /\ calls[c].fallbackOutcome = "succeeded"

\* C3: when the primary backend fails and there is no fallback or the
\* fallback fails too, processImage returns a terminal result with no contact
\* fields, confidence 0 and an error field carrying the error raised by the
\* primary backend.
C3_TerminalCarriesPrimaryError ==
  \A c \in Slots :
    LET call == calls[c]
    IN (/\ call.pc = "done"
        /\ call.primaryOutcome = "failed"
        /\ call.strategy.fallback = NONE \/ call.fallbackOutcome = "failed") =>
         /\ call.result.kind = "error"
         /\ call.result.fields = "none"
         /\ call.result.confidence = 0
         /\ call.result.error = call.primaryError

\* C4: within one call the two backends are never in flight together; the
\* fallback is invoked only after the primary attempt has failed and never
\* when it succeeded.
C4_Sequential ==
  \A c \in Slots :
    LET call == calls[c]
    IN /\ Cardinality(call.inflight) <= 1
       /\ Len(call.invoked) <= 2
       /\ (call.strategy.primary = GV /\ TESS \in call.inflight) =>
            call.primaryOutcome = "failed"
       /\ (Len(call.invoked) = 2) =>
            /\ call.invoked = <<GV, TESS>>
            /\ call.primaryOutcome = "failed"
       /\ (call.strategy.primary = GV /\ call.primaryOutcome = "succeeded") =>
            call.invoked = <<GV>>

\* the fallback in flight after the cloud backend has failed
C4_Witness ==
  \E c \in Slots :
    /\ calls[c].pc = "tess"
    /\ calls[c].invoked = <<GV, TESS>>
    /\ calls[c].inflight = {TESS}

\* the steps of slot c in which processImage takes note of an outcome
GvFailsIn(c) ==
  /\ calls[c].pc \in {"gvInit", "gvCall"}
  /\ calls'[c].primaryOutcome = "failed"
GvSucceedsIn(c) == calls[c].pc = "gvReturned" /\ calls'[c].pc = "done"
TessFailsIn(c) ==
  /\ calls[c].pc = "tess" /\ calls'[c].pc = "done"
  /\ calls'[c].result.kind = "error"
TessSucceedsIn(c) ==
  /\ calls[c].pc = "tess" /\ calls'[c].pc = "done"
  /\ calls'[c].result.kind = "ok"

GvCountedOnce ==
  /\ analytics'.googleVisionCount = analytics.googleVisionCount + 1
  /\ analytics'.tesseractCount = analytics.tesseractCount
TessCountedOnce ==
  /\ analytics'.tesseractCount = analytics.tesseractCount + 1
  /\ analytics'.googleVisionCount = analytics.googleVisionCount
NothingCounted ==
  /\ analytics'.tesseractCount = analytics.tesseractCount
  /\ analytics'.googleVisionCount = analytics.googleVisionCount

\* C5 as stated: every backend invocation, successful or failed, as primary
\* or as fallback, increments that backend's counter by exactly one.
C5_EveryInvocationCounted ==
  [][\A c \in Slots :
       /\ (GvFailsIn(c) \/ GvSucceedsIn(c)) => GvCountedOnce
       /\ (TessFailsIn(c) \/ TessSucceedsIn(c)) => TessCountedOnce]_vars

\* C5 amended: every backend invocation that succeeds, as primary or as
\* fallback, increments that backend's counter by exactly one and leaves the
\* other counter alone; an invocation that fails changes neither counter.
C5_SuccessfulInvocationCounted ==
  [][\A c \in Slots :
       /\ GvSucceedsIn(c) => GvCountedOnce
       /\ TessSucceedsIn(c) => TessCountedOnce
       /\ (GvFailsIn(c) \/ TessFailsIn(c)) => NothingCounted]_vars

\* the cloud backend failed uncounted, the fallback succeeded and was counted
C5_Witness ==
  /\ started = 1
  /\ calls[1].pc = "done"
  /\ calls[1].invoked = <<GV, TESS>>
  /\ calls[1].result.kind = "ok"
  /\ analytics.googleVisionCount = 0
  /\ analytics.tesseractCount = 1

\* the entries of a log are the last appended ones, oldest first
MostRecent(log, appended, cap) ==
  /\ Len(log) = Min(appended, cap)
  /\ \A i \in 1..Len(log) : log[i].timestamp = appended - Len(log) + i

\* C6: after any sequence of processImage calls with analytics enabled the
\* error log holds at most 50 entries and the timing log at most 100; beyond
\* a cap the oldest entries are dropped, so the retained entries are the most
\* recent ones in their original order.
C6_LogsCapped ==
  /\ Len(analytics.errors) <= MaxErrors
  /\ Len(analytics.processingTimes) <= MaxTimes
  /\ MostRecent(analytics.errors, hist.errors, MaxErrors)
  /\ MostRecent(analytics.processingTimes, hist.times, MaxTimes)

\* both logs have dropped entries
C6_Witness ==
  /\ hist.errors > MaxErrors /\ Len(analytics.errors) = MaxErrors
  /\ hist.times > MaxTimes /\ Len(analytics.processingTimes) = MaxTimes

\* C7: between two calls of resetUsageCounters the two invocation counters
\* never decrease and no other operation empties the error or timing log;
\* resetUsageCounters sets both counters to 0 and empties both logs.
C7_ResetOnlyByReset ==
  [][IF ResetUsageCounters
     THEN /\ analytics'.googleVisionCount = 0
          /\ analytics'.tesseractCount = 0
          /\ analytics'.errors = <<>>
          /\ analytics'.processingTimes = <<>>
     ELSE /\ analytics'.googleVisionCount >= analytics.googleVisionCount
          /\ analytics'.tesseractCount >= analytics.tesseractCount
          /\ analytics.errors # <<>> => analytics'.errors # <<>>
          /\ analytics.processingTimes # <<>> =>
               analytics'.processingTimes # <<>>]_vars

\* a reconfiguration after a counted fallback: the counter and both logs
\* are still there
C7_Witness ==
  /\ hist.lastOp \in {"setGoogleVisionApiKey", "setGoogleVisionConfig"}
  /\ Len(gvs) = 2
  /\ gvs[1].requestCount > 0
  /\ \A c \in Slots : calls[c].pc \in {"idle", "done"}
  /\ analytics.tesseractCount > 0
  /\ analytics.errors # <<>> /\ analytics.processingTimes # <<>>

\* C8: in every configuration and resource state healthCheck reports
\* googleVision.available = true exactly when determineStrategy, evaluated on
\* the same state, selects google-vision as primary.
C8_HealthMatchesStrategy ==
  health.pc = "done" =>
    (health.available <=> FirstMatchingRule(health.obs).primary = GV)

AllReturned == \A c \in Slots : calls[c].pc \in {"idle", "done"}

\* C9: when several processImage calls run concurrently on one instance, no
\* counter increment or log append is lost: once all calls have finished,
\* googleVisionCount + tesseractCount equals the number of calls that
\* returned a result without error, and the caps of both logs still hold.
C9_NoLostUpdate ==
  AllReturned =>
    /\ analytics.googleVisionCount + analytics.tesseractCount = hist.okReturns
    /\ Len(analytics.errors) = Min(hist.errors, MaxErrors)
    /\ Len(analytics.processingTimes) = Min(hist.times, MaxTimes)

\* calls have overlapped, all have returned, and both logs are full
C9_Witness ==
  /\ AllReturned
  /\ hist.overlap
  /\ hist.okReturns > MaxTimes
  /\ hist.errors > MaxErrors

\* C10: in every record the pipeline returns, on every path (layout-aware,
\* line-based fallback, cloud backend), if both name and company are set
\* they are not equal ignoring case.
C10_NameIsNotCompany ==
  (/\ doc.pc = "returned"
   /\ doc.contact.name # Unset
   /\ doc.contact.company # Unset) =>
     ToLowerCase(doc.contact.name) # ToLowerCase(doc.contact.company)

\* the forward order of the workflow and the position of a step in it; the
\* error step has no position
WorkflowOrder == <<"idle", "capturing", "processing", "results">>

HasPosition(step) == \E i \in 1..4 : WorkflowOrder[i] = step

Position(step) == CHOOSE i \in 1..4 : WorkflowOrder[i] = step

\* the state b moved by d positions, with the error cleared
Moved(b, d) ==
  [b EXCEPT !.currentStep = WorkflowOrder[Position(b.currentStep) + d],
            !.error = Null]

\* C20: nextStep and previousStep never leave the order idle, capturing,
\* processing, results: nextStep in results and previousStep in idle leave
\* the state unchanged, both leave the state unchanged in the error step, and
\* otherwise each moves the workflow exactly one position and clears error.
C20_StepsFollowOrder ==
  LET b == store.last.before
      a == store.state
  IN  /\ store.last.action = "nextStep" =>
           IF HasPosition(b.currentStep) /\ b.currentStep # "results"
           THEN a = Moved(b, 1)
           ELSE a = b
      /\ store.last.action = "previousStep" =>
           IF HasPosition(b.currentStep) /\ b.currentStep # "idle"
           THEN a = Moved(b, -1)
           ELSE a = b

\* nextStep has moved the workflow forward from a step whose error was set
\* (setError('') leaves the step), and has cleared the error
C20_Witness ==
  /\ store.last.action = "nextStep"
  /\ store.last.before.currentStep = "processing"
  /\ store.last.before.error = ""
  /\ store.state.currentStep = "results"
  /\ store.state.error = Null

\* C19: strategy selection always completes: every request it issues while
\* probing is time-boxed and aborted on expiry, so a selection that has
\* started reaches a decision whatever the servers do.
C19_SelectionCompletes == (probe.pc # "idle") ~> (probe.pc = "decided")

\* the number of entries of arr equal to x
Count(arr, x) == Cardinality({i \in 1..Len(arr) : arr[i] = x})

\* the band a token belongs to by its vertical centre: top when the centre is
\* at most a third of the height below the upper edge of the envelope of all
\* tokens, bottom when it is at least two thirds below it
BandOf(word, words) ==
  LET lo == MinOf({words[i].bbox.y0 : i \in 1..Len(words)})
      hi == MaxOf({words[i].bbox.y1 : i \in 1..Len(words)})
      c2 == word.bbox.y0 + word.bbox.y1
  IN  IF 3 * c2 <= 6 * lo + 2 * (hi - lo) THEN "top"
      ELSE IF 3 * c2 >= 6 * lo + 4 * (hi - lo) THEN "bottom" ELSE "middle"

BandEntry(word) ==
  [text |-> word.text, bbox |-> word.bbox, score |-> word.confidence]

\* C17: for a non-empty token list, every token with non-blank text is in
\* exactly one of the three bands, the one its vertical centre selects (also
\* when the envelope has height 0), and the bands hold nothing but tokens of
\* the input.
C17_BandsPartitionTokens ==
  ocr.pc = "layout" =>
    LET words == ocr.ocrResult.words
        band == [b \in {"top", "middle", "bottom"} |->
                   IF b = "top" THEN ocr.layout.topLines
                   ELSE IF b = "middle" THEN ocr.layout.middleLines
                   ELSE ocr.layout.bottomLines]
        all == band["top"] \o band["middle"] \o band["bottom"]
        real == {i \in 1..Len(words) : Trim(words[i].text) # <<>>}
    IN  /\ \A i \in real :
             /\ Count(all, BandEntry(words[i])) =
                  Cardinality({j \in real : words[j] = words[i]})
             /\ Count(band[BandOf(words[i], words)], BandEntry(words[i])) =
                  Cardinality({j \in real : words[j] = words[i]})
        /\ \A k \in 1..Len(all) :
             \E i \in real : all[k] = BandEntry(words[i])

\* two tokens of an envelope of height 0 have been placed, beside a blank one
C17_Witness ==
  /\ ocr.pc = "layout"
  /\ Len(ocr.ocrResult.words) >= 2
  /\ CardHeight(ocr.ocrResult.words) = 0
  /\ Len(ocr.layout.topLines) = 1
  /\ \E i \in 1..Len(ocr.ocrResult.words) : Blank(ocr.ocrResult.words[i])
\* ------------------------------------------------- the local extraction
\* processImage of the local service has returned the record
Finished == ocr.pc \in {"done", "converted"}

\* the record went through validateAndCleanFields
Arbitrated == Finished /\ ocr.ocrResult.words # <<>>

\* C11: whenever the name entering arbitration contains a keyword of the
\* title vocabulary of rule 1, whether or not a title was extracted, the
\* final record has no name.
C11_KeywordNameDiscarded ==
  (/\ Arbitrated
   /\ ocr.arbiter.entering.name # Unset
   /\ IncludesSome(ToLowerCase(ocr.arbiter.entering.name),
                   ArbiterTitleKeywords))
  => ocr.contactData.name = Unset
\* the title of the record contains a business keyword of rule 3
HasBusinessTitle(contactData) ==
  /\ contactData.title # Unset
  /\ IncludesSome(ToLowerCase(contactData.title), ArbiterBusinessKeywords)

\* the conditions under which rule 3 is to reassign the title
MovesTitle(contactData) ==
  /\ HasBusinessTitle(contactData)
  /\ contactData.company = Unset
  /\ contactData.fieldConfidences["title"] < 80

C13_FloorsHold ==
  Finished =>
    /\ ocr.contactData.name # Unset =>
         ocr.contactData.fieldConfidences["name"] >= 50
    /\ ocr.contactData.title # Unset =>
         ocr.contactData.fieldConfidences["title"] >= 60
    /\ ocr.contactData.company # Unset =>
         ocr.contactData.fieldConfidences["company"] >= 50

\* the same on the layout path only, where the arbiter runs
FloorsHoldAfterArbitration ==
  Arbitrated =>
    /\ ocr.contactData.name # Unset =>
         ocr.contactData.fieldConfidences["name"] >= 50
    /\ ocr.contactData.title # Unset =>
         ocr.contactData.fieldConfidences["title"] >= 60
    /\ ocr.contactData.company # Unset =>
         ocr.contactData.fieldConfidences["company"] >= 50
AfterAtSign(email) ==
  SubSeq(email, FirstIndexOf(email, <<"@">>) + 1, Len(email))

\* a record with an email has the website of that email's domain
WebsiteFollowsEmail(record) ==
  record.email # Unset => record.website = <<"w", "w", "w", ".">> \o AfterAtSign(record.email)

\* C15: in the record of the local service, in the record of the cloud
\* service and in the record the wrapper converts for the store, an email
\* that is set comes with the website "www." followed by the part of that
\* email after the at sign.
C15_WebsiteFollowsEmail ==
  /\ Finished => WebsiteFollowsEmail(ocr.contactData)
  /\ ocr.pc = "converted" => WebsiteFollowsEmail(ocr.extracted)
  /\ WebsiteFollowsEmail(doc.contact)

\* the wrapper has converted a record with an email, which went through the
\* arbiter
C15_Witness ==
  /\ ocr.pc = "converted"
  /\ Arbitrated
  /\ ocr.extracted.email = <<"b", "i", "1", "1", "@", "g", "m", "a", "i", "l", ".", "c", "o", "m">>
  /\ ocr.extracted.website = <<"w", "w", "w", ".", "g", "m", "a", "i", "l", ".", "c", "o", "m">>
\* C16: a recognition result without tokens, the word list missing or
\* empty, never makes processImage fail: the pipeline goes on to the
\* line-based extraction, the arbiter of the layout path does not run, and
\* the record returned is the one parseContactDataBasic makes of the text.
C16_ZeroTokensDegrade ==
  (ocr.pc \notin {"none", "recognized"} /\ ocr.ocrResult.words = <<>>) =>
    /\ ocr.pc \in {"received", "basic", "done", "converted"}
    /\ ocr.arbiter = NoArbiter
    /\ Finished =>
         ocr.contactData =
           ParseContactDataBasicOf(ocr.ocrResult, FreshRegexes,
                                   ocr.company).contactData

\* a record with an email came out of data without a word list
C16_Witness ==
  /\ Finished
  /\ ~ocr.data.hasWords
  /\ ocr.contactData.email = <<"j", "o", "h", "n", "@", "a", "c", "m", "e", ".", "o", "r", "g">>
  /\ ocr.contactData.confidence = ocr.data.confidence

C18_AfterAnother ==
  /\ ocr.pc = "done"
  /\ \E k \in 1..Len(ocr.runs) :
       /\ ocr.runs[k].data # ocr.data
       /\ ocr.runs[k].record.phone # ocr.contactData.phone
  /\ ocr.contactData.email = <<"j", "o", "h", "n", "@", "a", "c", "m", "e", ".", "o", "r", "g">>

\* C21: setError with a non-null message sets error to that message, moves
\* currentStep to 'error' and sets isProcessing to false from any state;
\* setError(null) clears error and isProcessing and leaves currentStep as it
\* was.
C21_SetErrorMoves ==
  store.last.action = "setError" =>
    /\ store.state.error = store.last.arg
    /\ ~store.state.isProcessing
    /\ store.state.currentStep =
         IF store.last.arg # Null THEN "error"
         ELSE store.last.before.currentStep

\* the same for the messages JavaScript takes as true, and the step left
\* alone for null and for the empty message
SetErrorMovesTruthy ==
  store.last.action = "setError" =>
    /\ store.state.error = store.last.arg
    /\ ~store.state.isProcessing
    /\ store.state.currentStep =
         IF Truthy(store.last.arg) THEN "error"
         ELSE store.last.before.currentStep

\* C22: the overall confidence of the record the local service returns is
\* the overall confidence the recognition backend reported for the image,
\* with tokens in the recognition result and without.
C22_ConfidenceOfBackend ==
  Finished => ocr.contactData.confidence = ocr.data.confidence

\* the same on the line-based path alone, which copies ocrResult.confidence
ConfidenceOfBackendWithoutTokens ==
  (Finished /\ ocr.ocrResult.words = <<>>) =>
    ocr.contactData.confidence = ocr.data.confidence

\* name and company of the record are set and equal but for case
SameNameAndCompany(contactData) ==
  /\ contactData.name # Unset
  /\ contactData.company # Unset
  /\ ToLowerCase(contactData.name) = ToLowerCase(contactData.company)

C23_KeptAfterRule1 ==
  /\ Arbitrated
  /\ SameNameAndCompany(ocr.arbiter.entering)
  /\ ocr.arbiter.afterRule1.name = Unset
  /\ ocr.contactData.company = <<"J", "o", " ", "D", "i", "r", "e", "c", "t", "o", "r">>
  /\ ocr.contactData.name = Unset

\* C24: in every record processImage returns, a title that is set differs
\* from the name and from the company of the record.
C24_TitleNotNameOrCompany ==
  (Finished /\ ocr.contactData.title # Unset) =>
    /\ ocr.contactData.title # ocr.contactData.name
    /\ ocr.contactData.title # ocr.contactData.company

\* the part of it that does not involve the company parser
TitleDiffersFromName ==
  (Finished /\ ocr.contactData.title # Unset) =>
    ocr.contactData.title # ocr.contactData.name

\* the record as the detectors left it: the one entering the arbiter on the
\* layout path, the one returned on the line-based path
Detected ==
  IF ocr.ocrResult.words # <<>> THEN ocr.arbiter.entering
  ELSE ocr.contactData

\* the confidences of the valid name candidates of the lines of the text
CandidateConfidences(text) ==
  {ParseNameFromLine(LinesOf(text)[i])[1].confidence :
     i \in {j \in 1..Len(LinesOf(text)) :
              ParseNameFromLine(LinesOf(text)[j]) # <<>>}}

\* C25: among the lines of the text that yield a valid name candidate, the
\* name extractor returns the candidate with the highest confidence.
C25_BestNameCandidate ==
  (Finished /\ Detected.name # Unset) =>
    \A c \in CandidateConfidences(ocr.ocrResult.text) :
      c <= Detected.fieldConfidences["name"]

\* what the extractor does return: the candidate of the first line that has
\* one
FirstNameCandidate ==
  (Finished /\ CandidateConfidences(ocr.ocrResult.text) # {}) =>
    LET lines == LinesOf(ocr.ocrResult.text)
        first == MinOf({j \in 1..Len(lines) :
                          ParseNameFromLine(lines[j]) # <<>>})
    IN  /\ Detected.name = ParseNameFromLine(lines[first])[1].name
        /\ Detected.fieldConfidences["name"] =
             ParseNameFromLine(lines[first])[1].confidence

\* C26: the requests a GoogleVisionService instance has counted, each of
\* them an API call that was issued and has returned, never exceed its
\* maxRequests, also when several processImage calls are in progress at once.
C26_QuotaNeverExceeded ==
  \A i \in 1..Len(gvs) : gvs[i].requestCount <= gvs[i].maxRequests

\* a processImage call has passed the quota check of an instance whose
\* quota is used up by now
PassedCheckOfUsedQuota ==
  \E c \in Slots :
    /\ calls[c].pc = "gvCall"
    /\ LimitReached(gvs[calls[c].gen])

\* C27: the request count of the cloud service the orchestrator holds goes
\* down only in resetUsageCounters; setGoogleVisionApiKey and
\* setGoogleVisionConfig leave it as it was.
C27_CountResetOnlyByReset ==
  [][gvs'[Len(gvs')].requestCount < gvs[Cur].requestCount =>
       hist'.lastOp = "resetUsageCounters" /\ ops' = ops + 1]_vars

\* the sum getAnalytics computes from the count of the analytics and the
\* remaining requests of the cloud service is maxRequests
CountPlusRemaining ==
  analytics.googleVisionCount + RemainingRequests(gvs[Cur]) =
    gvs[Cur].maxRequests

\* C28: when the image processing of a handleImageCapture call has failed
\* (an OCR error, or a confidence under 60), the workflow is in step 'error',
\* is not processing, holds the failure message as its error, and the call
\* has not set extractedData.
C28_FailureKeepsMessage ==
  store.last.action = "captureFailed" =>
    /\ store.state.currentStep = "error"
    /\ ~store.state.isProcessing
    /\ store.state.error # Null
    /\ store.state.error = store.last.arg
    /\ store.state.extractedData = store.last.before.extractedData

\* what does hold after a failure: the step, the flag and the untouched
\* data, with the error cleared
FailureClearsMessage ==
  store.last.action = "captureFailed" =>
    /\ store.last.arg # Null
    /\ store.state.currentStep = "error"
    /\ ~store.state.isProcessing
    /\ store.state.error = Null
    /\ store.state.extractedData = store.last.before.extractedData

\* C29: after resetWorkflow the store stays as it is until the user starts
\* a new scan: a handleImageCapture call that was awaiting processImage when
\* resetWorkflow ran does not change the store when it settles.
C29_ResetStays ==
  [][store.last.action = "resetWorkflow" =>
       store'.last.action \notin {"captureStored", "captureFailed"}]_vars

\* C30: between two calls of terminate createWorker hands over at most one
\* worker, however many calls of initialize and processImage there are and
\* however they overlap.
C30_OneWorker == tess.workers <= 1

====
